---------------------------- MODULE Spec2Model ----------------------------
(***************************************************************************)
(* Invoice reconciliation engine of program-conta.                         *)
(*                                                                         *)
(*   - ComparisonLogic.compareRecords  (src/src/lib/comparison-logic.ts)   *)
(*     fixed-schema mode: exact key phase, scored fallback phase, residue. *)
(*   - performComparison / valuesMatch (src/src/app/page.tsx)              *)
(*     generic mode: greedy best-candidate search over column mappings.    *)
(*   - Home (src/src/app/page.tsx): the state of the column-mapping page   *)
(*     under file selections, file clearings and compare clicks.           *)
(*                                                                         *)
(* Text is modelled by TLA+ strings used as character sequences (Len,      *)
(* SubSeq and \o); numbers parsed by parseFloat are kept in thousandths    *)
(* (Milli); scores of calculateMatchScore are kept in tenths.  Records are *)
(* identified by their position in the input array: both readers build a   *)
(* fresh object per row, and the Set<object> side tables of the code are   *)
(* keyed by object identity.                                               *)
(***************************************************************************)
EXTENDS Integers, Sequences, FiniteSets, TLC

VARIABLES
    mode,            \* "fixed" | "generic" | "fn" | "page": which entry point is running
    env,             \* the JavaScript host: how Date treats non-ISO text
    pc,              \* position inside the running call
    idx,             \* index of the current forEach iteration
    excelRecords,    \* compareRecords argument 1 (left source)
    csvRecords,      \* compareRecords argument 2 (right source)
    csvExactMap,     \* Map<string, ANAFInvoiceRecord>
    csvInvoiceMap,   \* Map<string, ANAFInvoiceRecord[]>
    processedExcel,  \* Set<ExcelInvoiceRecord>
    processedCSV,    \* Set<ANAFInvoiceRecord>
    result,          \* ComparisonResult under construction / returned
    threw,           \* an exception escaped the call
    run,             \* "first" | "second" | "perturbed": which call this is
    prev,            \* the previous call: its arguments and what it returned
    excel,           \* performComparison: excel.records
    csv,             \* performComparison: csv.records
    mappings,        \* performComparison: columns.mappings
    usedCsvIndices,  \* Set<number>
    gresult,         \* { matches, onlyInExcel, onlyInCsv }
    fnArgs,          \* arguments of the pure function under evaluation
    fnOut,           \* its result
    fileState,       \* page: { excelFile, csvFile }
    excelData,       \* page: ExcelParseResult | null
    csvData,         \* page: CSVParseResult | null
    selectedColumns, \* page: { excel, csv, mappings }
    comparisonResult,\* page: ComparisonResult | null
    loading,         \* page: { excel, csv, comparing }
    errorMessage,    \* page: the message shown
    parsing          \* page: per source, the files whose parse is awaited

\* the state of the page component
pageVars ==
    << fileState, excelData, csvData, selectedColumns, comparisonResult, loading,
       errorMessage, parsing >>

vars == << mode, env, pc, idx, excelRecords, csvRecords, csvExactMap,
           csvInvoiceMap, processedExcel, processedCSV, result, threw, run,
           prev, excel, csv, mappings, usedCsvIndices, gresult, fnArgs, fnOut,
           pageVars >>

\* null, and a value that is not null
Null == << >>

Some(x) == << x >>

\* the useState initial values of Home (lines 89-106), and no awaited parse
PageIdle ==
    /\ fileState = [excelFile |-> Null, csvFile |-> Null]
    /\ excelData = Null
    /\ csvData = Null
    /\ selectedColumns = [excel |-> << >>, csv |-> << >>, mappings |-> << >>]
    /\ comparisonResult = Null
    /\ loading = [excel |-> FALSE, csv |-> FALSE, comparing |-> FALSE]
    /\ errorMessage = ""
    /\ parsing = [excel |-> Null, csv |-> Null]

-----------------------------------------------------------------------------
(* Bounds of the model.                                                    *)

MaxRecords == 2
MaxRows == 2
MaxMappings == 2

-----------------------------------------------------------------------------
(* String primitives of the JavaScript runtime.                            *)

Char(s, i) == SubSeq(s, i, i)

LowerLetters == "abcdefghijklmnopqrstuvwxyz"
UpperLetters == "ABCDEFGHIJKLMNOPQRSTUVWXYZ"
DecimalDigits == "0123456789"

\* position of character c in alphabet, 0 when absent
IndexIn(c, alphabet) ==
    IF \E i \in 1..Len(alphabet) : SubSeq(alphabet, i, i) = c
    THEN CHOOSE i \in 1..Len(alphabet) : SubSeq(alphabet, i, i) = c
    ELSE 0

\* \s of a JavaScript regular expression, and the characters trim() removes
IsSpace(c) == c \in {" ", "\t"}

IsDigit(c) == c \in {"0", "1", "2", "3", "4", "5", "6", "7", "8", "9"}
DigitVal(c) == IndexIn(c, DecimalDigits) - 1

RECURSIVE trimStart(_)
trimStart(s) ==
    IF Len(s) > 0 /\ IsSpace(Char(s, 1)) THEN trimStart(SubSeq(s, 2, Len(s))) ELSE s

RECURSIVE trimEnd(_)
trimEnd(s) ==
    IF Len(s) > 0 /\ IsSpace(Char(s, Len(s))) THEN trimEnd(SubSeq(s, 1, Len(s) - 1)) ELSE s

trim(s) == trimEnd(trimStart(s))

MapChar(c, k, to) == IF k > 0 THEN SubSeq(to, k, k) ELSE c
UpperChar(c) == MapChar(c, IndexIn(c, LowerLetters), UpperLetters)
LowerChar(c) == MapChar(c, IndexIn(c, UpperLetters), LowerLetters)

\* The character-wise functions below work on the two halves of the text, so
\* that the evaluation depth grows with the logarithm of its length.
FirstHalf(s) == SubSeq(s, 1, Len(s) \div 2)
SecondHalf(s) == SubSeq(s, (Len(s) \div 2) + 1, Len(s))

RECURSIVE toUpperCase(_)
toUpperCase(s) ==
    IF Len(s) <= 1 THEN UpperChar(s)
    ELSE toUpperCase(FirstHalf(s)) \o toUpperCase(SecondHalf(s))

RECURSIVE toLowerCase(_)
toLowerCase(s) ==
    IF Len(s) <= 1 THEN LowerChar(s)
    ELSE toLowerCase(FirstHalf(s)) \o toLowerCase(SecondHalf(s))

\* s.replace(/\s+/g, '')
RECURSIVE removeWhitespace(_)
removeWhitespace(s) ==
    IF Len(s) <= 1 THEN (IF IsSpace(s) THEN "" ELSE s)
    ELSE removeWhitespace(FirstHalf(s)) \o removeWhitespace(SecondHalf(s))

\* two texts whose whitespace runs are already single spaces, joined so that a
\* run across the joint is a single space as well
JoinCollapsed(a, b) ==
    IF Len(a) > 0 /\ Len(b) > 0 /\ Char(a, Len(a)) = " " /\ Char(b, 1) = " "
    THEN a \o SubSeq(b, 2, Len(b))
    ELSE a \o b

\* s.replace(/\s+/g, ' ')
RECURSIVE collapseWhitespace(_)
collapseWhitespace(s) ==
    IF Len(s) <= 1 THEN (IF IsSpace(s) THEN " " ELSE s)
    ELSE JoinCollapsed(collapseWhitespace(FirstHalf(s)), collapseWhitespace(SecondHalf(s)))

\* s.replace(/\./g, '')
RECURSIVE removeDots(_)
removeDots(s) ==
    IF Len(s) <= 1 THEN (IF s = "." THEN "" ELSE s)
    ELSE removeDots(FirstHalf(s)) \o removeDots(SecondHalf(s))

\* s.replace(',', '.'): a string pattern replaces the first occurrence only
RECURSIVE replaceFirstComma(_)
replaceFirstComma(s) ==
    IF Len(s) = 0 THEN ""
    ELSE IF Char(s, 1) = "," THEN "." \o SubSeq(s, 2, Len(s))
    ELSE Char(s, 1) \o replaceFirstComma(SubSeq(s, 2, Len(s)))

\* s.includes(sub)
includes(s, sub) ==
    \E i \in 1..(Len(s) - Len(sub) + 1) : SubSeq(s, i, i + Len(sub) - 1) = sub

\* s.split(/[sep]+/) for a one-character class test given as a set of characters;
\* a leading or trailing run of separators yields an empty first or last piece
\* position of the first character of s that is (member = TRUE) or is not
\* (member = FALSE) in seps; Len(s) + 1 when there is none
FirstWhere(s, seps, member) ==
    IF \E i \in 1..Len(s) : (Char(s, i) \in seps) = member
    THEN CHOOSE i \in 1..Len(s) :
             /\ (Char(s, i) \in seps) = member
             /\ \A l \in 1..(i - 1) : (Char(s, l) \in seps) # member
    ELSE Len(s) + 1

RECURSIVE splitRuns(_, _)
\* the piece before the separator run at p, then the pieces after the run
SplitRunsAt(s, seps, p) ==
    IF p > Len(s) THEN << s >>
    ELSE << SubSeq(s, 1, p - 1) >>
         \o splitRuns(SubSeq(s, p + FirstWhere(SubSeq(s, p + 1, Len(s)), seps, FALSE), Len(s)),
                      seps)

splitRuns(s, seps) == SplitRunsAt(s, seps, FirstWhere(s, seps, TRUE))

\* s.split(/[sep]/): every separator character cuts
RECURSIVE splitEach(_, _)
SplitEachAt(s, seps, p) ==
    IF p > Len(s) THEN << s >>
    ELSE << SubSeq(s, 1, p - 1) >> \o splitEach(SubSeq(s, p + 1, Len(s)), seps)

splitEach(s, seps) == SplitEachAt(s, seps, FirstWhere(s, seps, TRUE))

RECURSIVE padStart2(_)
padStart2(s) == IF Len(s) < 2 THEN padStart2("0" \o s) ELSE s

Abs(n) == IF n < 0 THEN -n ELSE n
Max2(a, b) == IF a >= b THEN a ELSE b
Min2(a, b) == IF a <= b THEN a ELSE b

-----------------------------------------------------------------------------
(* Numbers.  A parsed number is kept in thousandths: 100.009 is 100009.    *)

Milli == 1000

RECURSIVE DigitPrefix(_)
DigitPrefix(s) ==
    IF Len(s) > 0 /\ IsDigit(Char(s, 1))
    THEN Char(s, 1) \o DigitPrefix(SubSeq(s, 2, Len(s)))
    ELSE ""

RECURSIVE DigitsToNat(_)
DigitsToNat(s) ==
    IF Len(s) = 0 THEN 0
    ELSE 10 * DigitsToNat(SubSeq(s, 1, Len(s) - 1)) + DigitVal(Char(s, Len(s)))

\* the fraction digits as thousandths (digits after the third are below the
\* resolution of the model and are dropped)
FractionMilli(f) ==
    DigitsToNat(SubSeq(f \o "000", 1, 3))

\* parseFloat, last stage: int and frac are the digit runs before and after
\* the point; NaN when both are empty
FloatOf(int, frac, neg) ==
    IF Len(int) = 0 /\ Len(frac) = 0
    THEN [nan |-> TRUE, val |-> 0]
    ELSE [nan |-> FALSE,
          val |-> (IF neg THEN -1 ELSE 1) * (Milli * DigitsToNat(int) + FractionMilli(frac))]

\* the digit run after a '.' that follows the integer digits, if any
FractionDigits(rest) ==
    IF Len(rest) > 0 /\ SubSeq(rest, 1, 1) = "." THEN DigitPrefix(SubSeq(rest, 2, Len(rest))) ELSE ""

UnsignedFloat(int, u, neg) ==
    FloatOf(int, FractionDigits(SubSeq(u, Len(int) + 1, Len(u))), neg)

SignedFloat(t) ==
    IF Len(t) > 0 /\ SubSeq(t, 1, 1) \in {"-", "+"}
    THEN UnsignedFloat(DigitPrefix(SubSeq(t, 2, Len(t))), SubSeq(t, 2, Len(t)), SubSeq(t, 1, 1) = "-")
    ELSE UnsignedFloat(DigitPrefix(t), t, FALSE)

\* parseFloat(s): leading whitespace skipped, optional sign, digits, optional
\* '.' and digits; anything after the longest such prefix is ignored; NaN when
\* the prefix holds no digit.  (No exponent or "Infinity" text occurs in the
\* modelled inputs.)
parseFloat(s) == SignedFloat(trimStart(s))

\* isNaN(num) ? 0 : num
ZeroIfNaN(num) == IF num.nan THEN 0 ELSE num.val

normalizeNumber(numStr) ==
    IF Len(numStr) = 0 THEN 0
    ELSE ZeroIfNaN(parseFloat(replaceFirstComma(trim(numStr))))

\* Pairs <<larger, smaller>> of modelled amounts whose decimal difference is
\* exactly 0.01 and whose binary64 difference is nevertheless below the
\* binary64 value of 0.01: 0.06 - 0.05 evaluates to 0.009999999999999995.
\* For 0.02 - 0.01, 19.01 - 19 and 100.01 - 100 the binary64 difference is
\* not below it.
Binary64BelowCent == { << 60, 50 >> }

\* Math.abs(a - b) < 0.01 as binary64 arithmetic decides it.  Away from the
\* exact boundary the rounding error (below 1e-10 for the modelled magnitudes)
\* cannot change the outcome.
absDiffBelowCent(a, b) ==
    IF Abs(a - b) * 100 = Milli
    THEN << Max2(a, b), Min2(a, b) >> \in Binary64BelowCent
    ELSE Abs(a - b) * 100 < Milli

numbersMatch(num1, num2) ==
    absDiffBelowCent(normalizeNumber(num1), normalizeNumber(num2))

-----------------------------------------------------------------------------
(* Dates.                                                                  *)

\* The JavaScript hosts the page can run in.  For text that is not in the
\* ISO format the Date constructor is implementation-defined:
\*   "strict"    such text is an Invalid Date;
\*   "localWest" numeric a/b/yyyy is read month-first, as local midnight, in a
\*               time zone at or west of UTC;
\*   "localEast" the same, in a time zone east of UTC (local midnight is the
\*               previous UTC day).
Envs == {"strict", "localWest", "localEast"}

IsLeap(y) == (y % 4 = 0 /\ y % 100 # 0) \/ y % 400 = 0

DaysInMonth(y, m) ==
    IF m = 2 THEN (IF IsLeap(y) THEN 29 ELSE 28)
    ELSE IF m \in {4, 6, 9, 11} THEN 30 ELSE 31

RECURSIVE DaysBeforeMonth(_, _)
DaysBeforeMonth(y, m) ==
    IF m <= 1 THEN 0 ELSE DaysBeforeMonth(y, m - 1) + DaysInMonth(y, m - 1)

\* day number of a civil date (only differences are used)
DayNumber(y, m, d) ==
    365 * y + ((y - 1) \div 4) - ((y - 1) \div 100) + ((y - 1) \div 400)
    + DaysBeforeMonth(y, m) + d

AllDigits(s) == \A i \in 1..Len(s) : IsDigit(Char(s, i))

InvalidDate == [valid |-> FALSE, y |-> 0, m |-> 0, d |-> 0, local |-> FALSE]

IsIsoShape(s) ==
    /\ Len(s) = 10
    /\ Char(s, 5) = "-" /\ Char(s, 8) = "-"
    /\ AllDigits(SubSeq(s, 1, 4)) /\ AllDigits(SubSeq(s, 6, 7)) /\ AllDigits(SubSeq(s, 9, 10))

\* three digit runs (1-2, 1-2 and 4 digits): a/b/yyyy with any of the separators
NumericTripleParts(parts) ==
    /\ Len(parts) = 3
    /\ Len(parts[1]) \in {1, 2} /\ Len(parts[2]) \in {1, 2} /\ Len(parts[3]) = 4
    /\ \A i \in 1..3 : AllDigits(parts[i])

CivilDate(y, m, d, local) ==
    IF m \in 1..12 /\ d >= 1 /\ d <= DaysInMonth(y, m)
    THEN [valid |-> TRUE, y |-> y, m |-> m, d |-> d, local |-> local]
    ELSE InvalidDate

LegacyDate(parts, e) ==
    IF NumericTripleParts(parts) /\ e # "strict"
    THEN CivilDate(DigitsToNat(parts[3]), DigitsToNat(parts[1]), DigitsToNat(parts[2]), TRUE)
    ELSE InvalidDate

\* new Date(s).  YYYY-MM-DD is UTC midnight of that date in every host; a
\* numeric a/b/yyyy, a.b.yyyy or a-b-yyyy is host-dependent (see Envs); any
\* other modelled text is an Invalid Date.  The modelled inputs hold no ISO
\* text with a day beyond the month's length, on which hosts disagree.
DateCtor(s, e) ==
    IF IsIsoShape(s)
    THEN CivilDate(DigitsToNat(SubSeq(s, 1, 4)), DigitsToNat(SubSeq(s, 6, 7)),
                   DigitsToNat(SubSeq(s, 9, 10)), FALSE)
    ELSE LegacyDate(splitEach(s, {"/", ".", "-"}), e)

DigitChar(n) == Char(DecimalDigits, (n % 10) + 1)

Pad4(n) ==
    DigitChar(n \div 1000) \o DigitChar(n \div 100) \o DigitChar(n \div 10) \o DigitChar(n)

Pad2(n) == DigitChar(n \div 10) \o DigitChar(n)

FormatIso(y, m, d) == Pad4(y) \o "-" \o Pad2(m) \o "-" \o Pad2(d)

\* date.toISOString().split('T')[0]: the UTC calendar date of the instant
toISODate(date, e) ==
    IF date.local /\ e = "localEast"
    THEN IF date.d > 1 THEN FormatIso(date.y, date.m, date.d - 1)
         ELSE IF date.m > 1 THEN FormatIso(date.y, date.m - 1, DaysInMonth(date.y, date.m - 1))
         ELSE FormatIso(date.y - 1, 12, 31)
    ELSE FormatIso(date.y, date.m, date.d)

\* `${year}-${month}-${day}` of lines 233-236
DayFirst(parts) == parts[3] \o "-" \o padStart2(parts[2]) \o "-" \o padStart2(parts[1])

\* The try block of normalizeDate (lines 228-240).  toISOString raises a
\* RangeError on an Invalid Date; the isNaN test keeps an Invalid Date away
\* from it.
TryBlock(dateStr, date, parts, e) ==
    IF ~date.valid
    THEN IF Len(parts) = 3
         THEN [raised |-> FALSE, value |-> DayFirst(parts)]
         ELSE [raised |-> FALSE, value |-> trim(dateStr)]
    ELSE [raised |-> FALSE, value |-> toISODate(date, e)]

\* the catch clause (241-243): whatever the block raised, return the trimmed text
CatchClause(r, dateStr) ==
    [escaped |-> FALSE, value |-> IF r.raised THEN trim(dateStr) ELSE r.value]

\* normalizeDate with neither the isNaN test nor the try statement: the
\* RangeError toISOString raises on an Invalid Date leaves the function
normalizeDateTryUnprotected(dateStr, e) ==
    IF DateCtor(dateStr, e).valid
    THEN [escaped |-> FALSE, value |-> toISODate(DateCtor(dateStr, e), e)]
    ELSE [escaped |-> TRUE, value |-> ""]

\* normalizeDate after the empty test
normalizeDateTry(dateStr, e) ==
    CatchClause(TryBlock(dateStr, DateCtor(dateStr, e), splitEach(dateStr, {"/", ".", "-"}), e),
                dateStr)

normalizeDate(dateStr, e) ==
    IF Len(dateStr) = 0 THEN "" ELSE normalizeDateTry(dateStr, e).value

\* an exception leaves normalizeDate
normalizeDateEscapes(dateStr, e) ==
    Len(dateStr) > 0 /\ normalizeDateTry(dateStr, e).escaped

datesMatch(date1, date2, e) == normalizeDate(date1, e) = normalizeDate(date2, e)

-----------------------------------------------------------------------------
(* Normalizers and evaluators of ComparisonLogic.                          *)

normalizeCIF(cif) == removeWhitespace(toUpperCase(trim(cif)))

normalizeInvoiceNumber(invoice) == removeWhitespace(toUpperCase(trim(invoice)))

\* a composite key that keeps the letter case
createRecordKeyCaseSensitive(cif, nrFactur) == trim(cif) \o "|" \o trim(nrFactur)

createRecordKey(cif, nrFactur) ==
    toUpperCase(trim(cif)) \o "|" \o toUpperCase(trim(nrFactur))

cifsMatch(cif1, cif2) == normalizeCIF(cif1) = normalizeCIF(cif2)

normalizeCompanyName(name) ==
    trim(collapseWhitespace(removeDots(toLowerCase(trim(name)))))

stopWords ==
    { "srl", "sa", "s.a.", "s.r.l.", "impex", "com", "prod", "serv", "grup", "group",
      "companie", "company", "institut", "institutul", "national", "nazionale", "de",
      "pentru", "si", "cu", "in", "la", "pe", "din", "prin", "dezvoltare", "cercetare", "-" }

extractKeyWords(name) ==
    SelectSeq(splitRuns(name, {" ", "\t", "-"}),
              LAMBDA word : Len(word) > 2 /\ word \notin stopWords /\ word # "")

\* a threshold that asks for every key word
EveryKeyWord(n) == n

\* Math.ceil(n * 0.7); the binary64 product rounds to the same integer as the
\* exact one for every n up to 20
CeilSeventyPercent(n) == (7 * n + 9) \div 10

\* lines 303-316: shorter and longer are the two keyword lists
KeyWordsMatch(shorter, longer) ==
    Cardinality({ i \in 1..Len(shorter) :
        \E j \in 1..Len(longer) :
            includes(longer[j], shorter[i]) \/ includes(shorter[i], longer[j]) })
    >= Max2(1, CeilSeventyPercent(Len(shorter)))

KeyWordListsMatch(words1, words2) ==
    IF Len(words1) = 0 \/ Len(words2) = 0 THEN FALSE
    ELSE IF Len(words1) <= Len(words2) THEN KeyWordsMatch(words1, words2)
    ELSE KeyWordsMatch(words2, words1)

flexibleCompanyMatch(name1, name2) ==
    KeyWordListsMatch(extractKeyWords(name1), extractKeyWords(name2))

\* a name comparison without the key-word fallback
NormalizedNamesEqual(normalized1, normalized2) == normalized1 = normalized2

NormalizedNamesMatch(normalized1, normalized2) ==
    IF normalized1 = normalized2 THEN TRUE
    ELSE flexibleCompanyMatch(normalized1, normalized2)

stringsMatch(str1, str2) ==
    NormalizedNamesMatch(normalizeCompanyName(str1), normalizeCompanyName(str2))

DiffText(label, excelValue, csvValue) ==
    label \o ": Excel=\"" \o excelValue \o "\" vs ANAF=\"" \o csvValue \o "\""

findDifferences(excelRecord, csvRecord, e) ==
    (IF ~cifsMatch(excelRecord.cifEmitent, csvRecord.cifEmitent)
     THEN << DiffText("CIF", excelRecord.cifEmitent, csvRecord.cifEmitent) >> ELSE << >>)
    \o
    (IF ~datesMatch(excelRecord.dataEmitere, csvRecord.dataEmitere, e)
     THEN << DiffText("Data emitere", excelRecord.dataEmitere, csvRecord.dataEmitere) >> ELSE << >>)
    \o
    (IF ~stringsMatch(excelRecord.denumireEmitent, csvRecord.denumireEmitent)
     THEN << DiffText("Denumire", excelRecord.denumireEmitent, csvRecord.denumireEmitent) >> ELSE << >>)
    \o
    (IF ~numbersMatch(excelRecord.cotaTVA, csvRecord.cotaTVA)
     THEN << DiffText("Cota TVA", excelRecord.cotaTVA, csvRecord.cotaTVA) >> ELSE << >>)
    \o
    (IF ~numbersMatch(excelRecord.baza, csvRecord.baza)
     THEN << DiffText("Baza TVA", excelRecord.baza, csvRecord.baza) >> ELSE << >>)

\* an exception leaves findDifferences: only normalizeDate holds an operation
\* that can raise on string arguments
findDifferencesEscapes(excelRecord, csvRecord, e) ==
    \/ normalizeDateEscapes(excelRecord.dataEmitere, e)
    \/ normalizeDateEscapes(csvRecord.dataEmitere, e)

isTransactionDifference(differences) ==
    LET isOnlyCompanyDifferences ==
            \A i \in 1..Len(differences) :
                \/ includes(toLowerCase(differences[i]), "cif:")
                \/ includes(toLowerCase(differences[i]), "denumire:")
    IN  isOnlyCompanyDifferences /\ Len(differences) > 0

\* Host time-zone offset in hours for a date read as local time.
TzOffsetHours(e) == IF e = "localEast" THEN 2 ELSE IF e = "localWest" THEN -5 ELSE 0

\* date.getTime() in hours
getTimeHours(date, e) ==
    24 * DayNumber(date.y, date.m, date.d) - (IF date.local THEN TzOffsetHours(e) ELSE 0)

\* Pairs <<larger, smaller>> of modelled amounts whose exact relative
\* difference is 5% but whose binary64 quotient exceeds the binary64 value of
\* 0.05: |1 - 0.95| / 1 evaluates to 0.050000000000000044.
Binary64AboveFivePercent == { << 1000, 950 >> }

\* Math.abs(a - b) / Math.max(a, b) <= 0.05 as binary64 arithmetic decides it
\* (a quotient by 0 is Infinity; a negative divisor gives a negative quotient)
percentDiffWithinFive(excelAmount, csvAmount) ==
    IF Max2(excelAmount, csvAmount) > 0
    THEN IF 100 * Abs(excelAmount - csvAmount) = 5 * Max2(excelAmount, csvAmount)
         THEN << Max2(excelAmount, csvAmount), Min2(excelAmount, csvAmount) >>
                  \notin Binary64AboveFivePercent
         ELSE 100 * Abs(excelAmount - csvAmount) < 5 * Max2(excelAmount, csvAmount)
    ELSE Max2(excelAmount, csvAmount) < 0

\* a week test that excludes the seventh day
WithinSixDays(excelDate, csvDate, e) ==
    /\ excelDate.valid /\ csvDate.valid
    /\ Abs(getTimeHours(excelDate, e) - getTimeHours(csvDate, e)) < 7 * 24

\* lines 355-358: daysDiff <= 7; a NaN difference (an Invalid Date) fails it
WithinAWeek(excelDate, csvDate, e) ==
    /\ excelDate.valid /\ csvDate.valid
    /\ Abs(getTimeHours(excelDate, e) - getTimeHours(csvDate, e)) <= 7 * 24

\* lines 351-359
DatePoints(date1, date2, e) ==
    IF datesMatch(date1, date2, e) THEN 4
    ELSE IF WithinAWeek(DateCtor(normalizeDate(date1, e), e), DateCtor(normalizeDate(date2, e), e), e)
         THEN 2 ELSE 0

\* lines 362-370
AmountPoints(baza1, baza2) ==
    IF numbersMatch(baza1, baza2) THEN 4
    ELSE IF percentDiffWithinFive(normalizeNumber(baza1), normalizeNumber(baza2)) THEN 2 ELSE 0

\* lines 373-375
VatPoints(cota1, cota2) == IF numbersMatch(cota1, cota2) THEN 2 ELSE 0

\* The score in tenths.  Accumulated in the code's order (date, amount, VAT
\* rate) the binary64 sums are 0, 0.2, 0.4, 0.6000000000000001, 0.8 and 1.0:
\* one value per number of tenths, so comparing tenths compares the sums.
calculateMatchScore(excelRecord, csvRecord, e) ==
    DatePoints(excelRecord.dataEmitere, csvRecord.dataEmitere, e)
    + AmountPoints(excelRecord.baza, csvRecord.baza)
    + VatPoints(excelRecord.cotaTVA, csvRecord.cotaTVA)

calculateMatchScoreEscapes(excelRecord, csvRecord, e) ==
    \/ normalizeDateEscapes(excelRecord.dataEmitere, e)
    \/ normalizeDateEscapes(csvRecord.dataEmitere, e)

\* bestScore > 0.5, in tenths
Threshold == 5

-----------------------------------------------------------------------------
(* Inputs of compareRecords.                                               *)

Rec(cif, nr, date, name, vat, base) ==
    [cifEmitent |-> cif, nrFactur |-> nr, dataEmitere |-> date,
     denumireEmitent |-> name, cotaTVA |-> vat, baza |-> base]

\* rows of the left source (accounting export)
ExcelPool ==
    { Rec("123", "F001", "2024-01-10", "ACME SRL", "19", "100.00"),
      Rec("RO123", "F002", "2024-01-10", "ACME SRL", "19", "100.00"),
      Rec("456", "f002", "10/01/2024", "Beta Prod S.R.L.", "19", "100,00"),
      Rec("789", "F003", "n/a", "", "abc", "") }

\* rows of the right source (tax authority export)
CsvPool ==
    { Rec("123", "F001", "2024-01-10", "ACME SRL", "19", "100,00"),
      Rec("123", "F001", "cif:", "ACME SRL", "19", "100.00"),
      Rec("123", "F002", "2024-01-13", "ACME SRL", "19", "100.00"),
      Rec("123", "F002", "2024-01-10", "ACME SRL", "9", "100.00"),
      Rec("999", "F 002", "2024-03-01", "GAMA SA", "19", "250.00") }

RECURSIVE SeqsUpTo(_, _)
SeqsUpTo(S, n) ==
    IF n = 0 THEN { << >> }
    ELSE LET shorter == SeqsUpTo(S, n - 1) IN
         shorter \cup { Append(q, x) : q \in { r \in shorter : Len(r) = n - 1 }, x \in S }

EmptyResult ==
    [missingFromCSV |-> << >>, missingFromExcel |-> << >>, valueDifferences |-> << >>,
     transactionDifferences |-> << >>, perfectMatches |-> << >>]

NoMap == [k \in {} |-> 0]

EmptyGenericResult == [matches |-> << >>, onlyInExcel |-> << >>, onlyInCsv |-> << >>]

\* entry of compareRecords: lines 22-34 and 64-65, the locals of one call
EnterCompareRecords ==
    /\ pc = "build"
    /\ idx = 1
    /\ csvExactMap = NoMap
    /\ csvInvoiceMap = NoMap
    /\ processedExcel = {}
    /\ processedCSV = {}
    /\ result = EmptyResult
    /\ threw = FALSE

\* no earlier call to compare with
NoCall == [result |-> EmptyResult, left |-> << >>, right |-> << >>]

FixedIdle ==
    /\ excelRecords = << >> /\ csvRecords = << >>
    /\ idx = 1
    /\ csvExactMap = NoMap /\ csvInvoiceMap = NoMap
    /\ processedExcel = {} /\ processedCSV = {}
    /\ result = EmptyResult
    /\ threw = FALSE

GenericIdle ==
    /\ excel = << >> /\ csv = << >> /\ mappings = << >>
    /\ usedCsvIndices = {} /\ gresult = EmptyGenericResult

FnIdle == fnArgs = << >> /\ fnOut = << >>

InitFixed ==
    /\ mode = "fixed"
    /\ PageIdle
    /\ env \in Envs
    /\ excelRecords \in SeqsUpTo(ExcelPool, MaxRecords)
    /\ csvRecords \in SeqsUpTo(CsvPool, MaxRecords)
    /\ EnterCompareRecords
    /\ run = "first"
    /\ prev = NoCall
    /\ GenericIdle
    /\ FnIdle

-----------------------------------------------------------------------------
(* compareRecords, one action per loop iteration.                          *)

\* the first index of records whose composite key is k
FirstWithKey(records, k) ==
    CHOOSE j \in 1..Len(records) :
        /\ createRecordKey(records[j].cifEmitent, records[j].nrFactur) = k
        /\ \A l \in 1..(j - 1) :
               createRecordKey(records[l].cifEmitent, records[l].nrFactur) # k

\* the last index of records whose composite key is k
LastWithKey(records, k) ==
    CHOOSE j \in 1..Len(records) :
        /\ createRecordKey(records[j].cifEmitent, records[j].nrFactur) = k
        /\ \A l \in (j + 1)..Len(records) :
               createRecordKey(records[l].cifEmitent, records[l].nrFactur) # k

\* csvExactMap.set(exactKey, record) over the rows in order: the last row of a
\* key stays
BuildExactMap(records) ==
    [k \in { createRecordKey(records[j].cifEmitent, records[j].nrFactur) : j \in 1..Len(records) } |->
        LastWithKey(records, k)]

\* the members of a set of array indices in iteration (ascending) order
RECURSIVE InOrder(_)
InOrder(S) ==
    IF S = {} THEN << >>
    ELSE LET m == CHOOSE x \in S : \A y \in S : x <= y IN << m >> \o InOrder(S \ {m})

\* csvInvoiceMap.get(invoiceKey).push(record) over the rows in order
BuildInvoiceMap(records) ==
    [k \in { normalizeInvoiceNumber(records[j].nrFactur) : j \in 1..Len(records) } |->
        InOrder({ j \in 1..Len(records) : normalizeInvoiceNumber(records[j].nrFactur) = k })]

\* lines 37-62.  (excelExactMap and excelInvoiceMap are filled there as well
\* and never read; they are not part of the state.)
BuildMaps ==
    /\ mode = "fixed" /\ pc = "build"
    /\ csvExactMap' = BuildExactMap(csvRecords)
    /\ csvInvoiceMap' = BuildInvoiceMap(csvRecords)
    /\ pc' = "phase1"
    /\ idx' = 1
    /\ UNCHANGED << pageVars, mode, env, excelRecords, csvRecords, processedExcel, processedCSV,
                    result, threw, run, prev, excel, csv, mappings, usedCsvIndices,
                    gresult, fnArgs, fnOut >>

\* a classification without the test of lines 78 and 133 for an empty list
BucketOfNonEmpty(differences) ==
    IF isTransactionDifference(differences) THEN "transactionDifferences"
    ELSE "valueDifferences"

\* the bucket the code pushes a matched pair to (lines 78-102 and 133-157)
BucketOf(differences) ==
    IF Len(differences) = 0 THEN "perfectMatches"
    ELSE IF isTransactionDifference(differences) THEN "transactionDifferences"
    ELSE "valueDifferences"

MatchedRecord(i, j, differences, matchType) ==
    [excelRecord |-> i, csvRecord |-> j, differences |-> differences, matchType |-> matchType]

PushTo(res, bucket, matched) == [res EXCEPT ![bucket] = Append(@, matched)]

PushDifferences(res, i, j, differences, matchType) ==
    PushTo(res, BucketOf(differences), MatchedRecord(i, j, differences, matchType))

PushMatch(res, i, j, matchType, e) ==
    PushDifferences(res, i, j, findDifferences(excelRecords[i], csvRecords[j], e), matchType)

\* a phase 1 that finds no record under any key
Phase1HitNever(exactKey) == FALSE

\* line 72: csvExactMap.get(exactKey) is a record
Phase1Hit(exactKey) == exactKey \in DOMAIN csvExactMap

\* a pairing that does not add the left record to processedExcel
PairUpLeftUnmarked(i, j, matchType) ==
    /\ processedExcel' = processedExcel
    /\ processedCSV' = processedCSV \cup {j}
    /\ IF findDifferencesEscapes(excelRecords[i], csvRecords[j], env)
       THEN /\ threw' = TRUE /\ pc' = "threw"
            /\ UNCHANGED << result, idx >>
       ELSE /\ result' = PushMatch(result, i, j, matchType, env)
            /\ idx' = idx + 1
            /\ UNCHANGED << threw, pc >>

\* lines 73-102: the pair is marked consumed, compared and pushed
PairUp(i, j, matchType) ==
    /\ processedExcel' = processedExcel \cup {i}
    /\ processedCSV' = processedCSV \cup {j}
    /\ IF findDifferencesEscapes(excelRecords[i], csvRecords[j], env)
       THEN /\ threw' = TRUE /\ pc' = "threw"
            /\ UNCHANGED << result, idx >>
       ELSE /\ result' = PushMatch(result, i, j, matchType, env)
            /\ idx' = idx + 1
            /\ UNCHANGED << threw, pc >>

SkipRecord ==
    /\ idx' = idx + 1
    /\ UNCHANGED << processedExcel, processedCSV, result, threw, pc >>

\* lines 68-104, one iteration
Phase1Step ==
    /\ mode = "fixed" /\ pc = "phase1" /\ idx <= Len(excelRecords)
    /\ \E exactKey \in { createRecordKey(excelRecords[idx].cifEmitent, excelRecords[idx].nrFactur) } :
           IF Phase1Hit(exactKey)
           THEN PairUp(idx, csvExactMap[exactKey], "exact")
           ELSE SkipRecord
    /\ UNCHANGED << pageVars, mode, env, excelRecords, csvRecords, csvExactMap, csvInvoiceMap,
                    run, prev, excel, csv, mappings, usedCsvIndices, gresult, fnArgs, fnOut >>

Phase1Exit ==
    /\ mode = "fixed" /\ pc = "phase1" /\ idx > Len(excelRecords)
    /\ pc' = "phase2"
    /\ idx' = 1
    /\ UNCHANGED << pageVars, mode, env, excelRecords, csvRecords, csvExactMap, csvInvoiceMap,
                    processedExcel, processedCSV, result, threw, run, prev, excel, csv,
                    mappings, usedCsvIndices, gresult, fnArgs, fnOut >>

NoMatch == [bestMatch |-> 0, bestScore |-> -1]

\* a scan in which an equal score replaces the best so far
KeepLastWins(best, j, score) ==
    IF score >= best.bestScore THEN [bestMatch |-> j, bestScore |-> score] ELSE best

\* lines 121-124: a strictly higher score replaces the best so far
Keep(best, j, score) ==
    IF score > best.bestScore THEN [bestMatch |-> j, bestScore |-> score] ELSE best

\* a scan that does not skip the consumed right records
ConsiderAlsoConsumed(best, excelRecord, j) ==
    Keep(best, j, calculateMatchScore(excelRecord, csvRecords[j], env))

\* lines 117-125, one candidate
Consider(best, excelRecord, j) ==
    IF j \in processedCSV THEN best
    ELSE Keep(best, j, calculateMatchScore(excelRecord, csvRecords[j], env))

\* lines 114-125: the scan of the candidates in list order; bestMatch 0 is null
RECURSIVE BestCandidate(_, _, _, _)
BestCandidate(excelRecord, csvCandidates, k, best) ==
    IF k > Len(csvCandidates) THEN best
    ELSE BestCandidate(excelRecord, csvCandidates, k + 1,
                       Consider(best, excelRecord, csvCandidates[k]))

\* a candidate list that ignores the invoice number
CandidatesOfAnyInvoice(invoiceKey) == InOrder(1..Len(csvRecords))

\* line 111: csvInvoiceMap.get(invoiceKey) || []
CandidatesFor(invoiceKey) ==
    IF invoiceKey \in DOMAIN csvInvoiceMap THEN csvInvoiceMap[invoiceKey] ELSE << >>

CandidatesOf(excelRecord) == CandidatesFor(normalizeInvoiceNumber(excelRecord.nrFactur))

\* an exception leaves the candidate scan
ScanEscapes(excelRecord, csvCandidates) ==
    \E k \in 1..Len(csvCandidates) :
        /\ csvCandidates[k] \notin processedCSV
        /\ calculateMatchScoreEscapes(excelRecord, csvRecords[csvCandidates[k]], env)

\* line 127: bestMatch && bestScore > 0.5
Accepts(best) == best.bestMatch # 0 /\ best.bestScore > Threshold

\* lines 107-159, one iteration
Phase2Step ==
    /\ mode = "fixed" /\ pc = "phase2" /\ idx <= Len(excelRecords)
    /\ IF idx \in processedExcel
       THEN SkipRecord
       ELSE \E csvCandidates \in { CandidatesOf(excelRecords[idx]) } :
            IF ScanEscapes(excelRecords[idx], csvCandidates)
            THEN /\ threw' = TRUE /\ pc' = "threw"
                 /\ UNCHANGED << processedExcel, processedCSV, result, idx >>
            ELSE \E best \in { BestCandidate(excelRecords[idx], csvCandidates, 1, NoMatch) } :
                 IF Accepts(best)
                 THEN PairUp(idx, best.bestMatch, "invoice-only")
                 ELSE SkipRecord
    /\ UNCHANGED << pageVars, mode, env, excelRecords, csvRecords, csvExactMap, csvInvoiceMap,
                    run, prev, excel, csv, mappings, usedCsvIndices, gresult, fnArgs, fnOut >>

Phase2Exit ==
    /\ mode = "fixed" /\ pc = "phase2" /\ idx > Len(excelRecords)
    /\ pc' = "phase3"
    /\ idx' = 1
    /\ UNCHANGED << pageVars, mode, env, excelRecords, csvRecords, csvExactMap, csvInvoiceMap,
                    processedExcel, processedCSV, result, threw, run, prev, excel, csv,
                    mappings, usedCsvIndices, gresult, fnArgs, fnOut >>

\* lines 162-174: the residue loops and the return
Phase3 ==
    /\ mode = "fixed" /\ pc = "phase3"
    /\ result' = [result EXCEPT
                    !.missingFromCSV =
                        @ \o InOrder({ i \in 1..Len(excelRecords) : i \notin processedExcel }),
                    !.missingFromExcel =
                        @ \o InOrder({ j \in 1..Len(csvRecords) : j \notin processedCSV })]
    /\ pc' = "done"
    /\ UNCHANGED << pageVars, mode, env, idx, excelRecords, csvRecords, csvExactMap, csvInvoiceMap,
                    processedExcel, processedCSV, threw, run, prev, excel, csv, mappings,
                    usedCsvIndices, gresult, fnArgs, fnOut >>

\* a second call that finds the processed sets of the first (as static fields
\* of the class would be)
CallAgainKeepingProcessed ==
    /\ mode = "fixed" /\ pc = "done" /\ run = "first"
    /\ prev' = [result |-> result, left |-> excelRecords, right |-> csvRecords]
    /\ run' = "second"
    /\ pc' = "build"
    /\ idx' = 1
    /\ csvExactMap' = NoMap
    /\ csvInvoiceMap' = NoMap
    /\ result' = EmptyResult
    /\ UNCHANGED << pageVars, mode, env, excelRecords, csvRecords, processedExcel, processedCSV, threw,
                    excel, csv, mappings, usedCsvIndices, gresult, fnArgs, fnOut >>

\* A second call of compareRecords with the arguments of the first: the maps,
\* the processed sets and the result are locals of the call (lines 22-65), so
\* the call starts from fresh ones.
CallAgain ==
    /\ mode = "fixed" /\ pc = "done" /\ run = "first"
    /\ prev' = [result |-> result, left |-> excelRecords, right |-> csvRecords]
    /\ run' = "second"
    /\ pc' = "build"
    /\ idx' = 1
    /\ csvExactMap' = NoMap
    /\ csvInvoiceMap' = NoMap
    /\ processedExcel' = {}
    /\ processedCSV' = {}
    /\ result' = EmptyResult
    /\ UNCHANGED << pageVars, mode, env, excelRecords, csvRecords, threw, excel, csv, mappings,
                    usedCsvIndices, gresult, fnArgs, fnOut >>

NextFixed ==
    BuildMaps \/ Phase1Step \/ Phase1Exit \/ Phase2Step \/ Phase2Exit \/ Phase3 \/ CallAgain

-----------------------------------------------------------------------------
(* performComparison of the column-mapping page.  Row indices are 1-based   *)
(* here and 0-based in the code.                                            *)

normalizeString(str) == collapseWhitespace(toLowerCase(trim(str)))

Min3(a, b, c) == Min2(a, Min2(b, c))

\* lines 371-378: the cells 1..str1.length of matrix row j, left to right.
\* row holds matrix[j][0..i-1], so the next cell is i = Len(row); prevRow
\* holds matrix[j-1].
RECURSIVE FillRow(_, _, _, _)
FillRow(row, prevRow, str1, ch) ==
    IF Len(row) > Len(str1) THEN row
    ELSE FillRow(Append(row, Min3(row[Len(row)] + 1,
                                  prevRow[Len(row) + 1] + 1,
                                  prevRow[Len(row)]
                                      + (IF Char(str1, Len(row)) = ch THEN 0 ELSE 1))),
                 prevRow, str1, ch)

\* lines 370-379: the rows 1..str2.length; prevRow[1] is matrix[j-1][0] = j - 1,
\* and the value is the last row
RECURSIVE FillMatrix(_, _, _)
FillMatrix(prevRow, str1, str2) ==
    IF prevRow[1] >= Len(str2) THEN prevRow
    ELSE FillMatrix(FillRow(<< prevRow[1] + 1 >>, prevRow, str1,
                            Char(str2, prevRow[1] + 1)),
                    str1, str2)

\* matrix[str2.length][str1.length]; line 367 fills row 0 with 0..str1.length
LevenshteinDistance(str1, str2) ==
    FillMatrix([i \in 1..(Len(str1) + 1) |-> i - 1], str1, str2)[Len(str1) + 1]

\* the similarity as the fraction << numerator, denominator >>
calculateSimilarity(str1, str2) ==
    IF str1 = str2 THEN << 1, 1 >>
    ELSE IF Len(str1) = 0 \/ Len(str2) = 0 THEN << 0, 1 >>
    ELSE << Max2(Len(str1), Len(str2)) - LevenshteinDistance(str1, str2),
            Max2(Len(str1), Len(str2)) >>

\* similarity > 0.8.  A quotient of lengths that is exactly 4/5 rounds to the
\* binary64 value of 0.8, and any other is further from it than the rounding
\* error, so the comparison of the fractions decides it.
AboveEighty(similarity) == 5 * similarity[1] > 4 * similarity[2]

\* lines 232-234: both parse and the numbers are equal
FloatsEqual(num1, num2) == ~num1.nan /\ ~num2.nan /\ num1.val = num2.val

\* lines 226-240
NormalizedValuesMatch(norm1, norm2) ==
    \/ norm1 = norm2
    \/ includes(norm1, norm2) \/ includes(norm2, norm1)
    \/ FloatsEqual(parseFloat(norm1), parseFloat(norm2))
    \/ (Len(norm1) > 3 /\ Len(norm2) > 3 /\ AboveEighty(calculateSimilarity(norm1, norm2)))

valuesMatch(val1, val2) ==
    IF val1 = "" /\ val2 = "" THEN TRUE
    ELSE IF val1 = "" \/ val2 = "" THEN FALSE
    ELSE NormalizedValuesMatch(normalizeString(val1), normalizeString(val2))

\* row[column] || ''
Cell(row, column) == IF column \in DOMAIN row THEN row[column] ELSE ""

\* line 299: the text pushed for a mapping whose values disagree (the code's
\* not-equal sign U+2260 is written != here)
GenericDiffText(mapping, excelVal, csvVal) ==
    mapping.excel \o " (" \o excelVal \o ") != " \o mapping.csv \o " (" \o csvVal \o ")"

\* lines 286-302: the differences of one pair of rows, in mapping order
RECURSIVE DifferencesFrom(_, _, _)
DifferencesFrom(excelRow, csvRow, k) ==
    IF k > Len(mappings) THEN << >>
    ELSE (IF valuesMatch(Cell(excelRow, mappings[k].excel), Cell(csvRow, mappings[k].csv))
          THEN << >>
          ELSE << GenericDiffText(mappings[k], Cell(excelRow, mappings[k].excel),
                                  Cell(csvRow, mappings[k].csv)) >>)
         \o DifferencesFrom(excelRow, csvRow, k + 1)

\* matchingFields of lines 283-302
MatchingFields(excelRow, csvRow) ==
    Cardinality({ k \in 1..Len(mappings) :
        valuesMatch(Cell(excelRow, mappings[k].excel), Cell(csvRow, mappings[k].csv)) })

\* excelData and csvData: the mapped columns of a row
ExcelData(excelRow) ==
    [c \in { mappings[k].excel : k \in 1..Len(mappings) } |-> Cell(excelRow, c)]

CsvData(csvRow) ==
    [c \in { mappings[k].csv : k \in 1..Len(mappings) } |-> Cell(csvRow, c)]

\* bestMatch = null
GenericNoMatch == [csvIndex |-> 0, differences |-> << >>, score |-> 0]

\* an acceptance test that excludes the score 0.5
GenericKeepAboveHalf(bestMatch, csvIndex, differences, matchingFields) ==
    IF /\ 2 * matchingFields > Len(mappings)
       /\ (bestMatch.csvIndex = 0 \/ matchingFields > bestMatch.score)
    THEN [csvIndex |-> csvIndex, differences |-> differences, score |-> matchingFields]
    ELSE bestMatch

\* line 309.  All scores of one call share the denominator mappings.length, so
\* a score is kept as its numerator matchingFields.  The binary64 quotient
\* grows with the numerator and 0.5 is a binary64 number, so score >= 0.5 is
\* 2 * matchingFields >= mappings.length.
GenericKeep(bestMatch, csvIndex, differences, matchingFields) ==
    IF /\ 2 * matchingFields >= Len(mappings)
       /\ (bestMatch.csvIndex = 0 \/ matchingFields > bestMatch.score)
    THEN [csvIndex |-> csvIndex, differences |-> differences, score |-> matchingFields]
    ELSE bestMatch

\* a scan that does not skip the rows in usedCsvIndices
GenericConsiderUsedRows(bestMatch, excelRow, csvIndex) ==
    GenericKeep(bestMatch, csvIndex, DifferencesFrom(excelRow, csv[csvIndex], 1),
                MatchingFields(excelRow, csv[csvIndex]))

\* lines 277-318, one CSV row
GenericConsider(bestMatch, excelRow, csvIndex) ==
    IF csvIndex \in usedCsvIndices THEN bestMatch
    ELSE GenericKeep(bestMatch, csvIndex, DifferencesFrom(excelRow, csv[csvIndex], 1),
                     MatchingFields(excelRow, csv[csvIndex]))

\* lines 277-318: the scan of the CSV rows in order
RECURSIVE GenericBest(_, _, _)
GenericBest(excelRow, csvIndex, bestMatch) ==
    IF csvIndex > Len(csv) THEN bestMatch
    ELSE GenericBest(excelRow, csvIndex + 1, GenericConsider(bestMatch, excelRow, csvIndex))

fixedVars ==
    << excelRecords, csvRecords, csvExactMap, csvInvoiceMap, processedExcel, processedCSV,
       result, threw >>

\* lines 250-264
GenericEnter ==
    /\ mode = "generic" /\ pc = "enter"
    /\ IF Len(mappings) = 0 THEN pc' = "done" ELSE pc' = "rows"
    /\ idx' = 1
    /\ UNCHANGED << pageVars, mode, env, run, prev, excel, csv, mappings, usedCsvIndices, gresult,
                    fnArgs, fnOut, fixedVars >>

\* lines 320-330
GenericPushMatch(bestMatch) ==
    /\ usedCsvIndices' = usedCsvIndices \cup { bestMatch.csvIndex }
    /\ gresult' = [gresult EXCEPT !.matches = Append(@,
                      [rowIndex |-> idx,
                       csvRowIndex |-> bestMatch.csvIndex,
                       excelRow |-> ExcelData(excel[idx]),
                       csvRow |-> CsvData(csv[bestMatch.csvIndex]),
                       differences |-> bestMatch.differences])]

\* lines 331-338
GenericPushOnlyInExcel ==
    /\ gresult' = [gresult EXCEPT !.onlyInExcel = Append(@,
                      [rowIndex |-> idx, row |-> ExcelData(excel[idx])])]
    /\ UNCHANGED usedCsvIndices

\* lines 266-339, one Excel row
GenericRowStep ==
    /\ mode = "generic" /\ pc = "rows" /\ idx <= Len(excel)
    /\ \E bestMatch \in { GenericBest(excel[idx], 1, GenericNoMatch) } :
           IF bestMatch.csvIndex # 0
           THEN GenericPushMatch(bestMatch)
           ELSE GenericPushOnlyInExcel
    /\ idx' = idx + 1
    /\ UNCHANGED << pageVars, mode, env, pc, run, prev, excel, csv, mappings, fnArgs, fnOut, fixedVars >>

OnlyInCsvRows(unused) ==
    [k \in 1..Len(unused) |-> [rowIndex |-> unused[k], row |-> CsvData(csv[unused[k]])]]

\* lines 342-357: the unmatched CSV rows and the return
GenericTail ==
    /\ mode = "generic" /\ pc = "rows" /\ idx > Len(excel)
    /\ gresult' = [gresult EXCEPT !.onlyInCsv =
                      @ \o OnlyInCsvRows(InOrder({ j \in 1..Len(csv) : j \notin usedCsvIndices }))]
    /\ pc' = "done"
    /\ UNCHANGED << pageVars, mode, env, idx, run, prev, excel, csv, mappings, usedCsvIndices,
                    fnArgs, fnOut, fixedVars >>

\* A second call of performComparison with the arguments of the first; the
\* three lists and usedCsvIndices are locals of the call (lines 250-264).
GenericCallAgain ==
    /\ mode = "generic" /\ pc = "done" /\ run = "first"
    /\ prev' = [result |-> gresult, left |-> excel, right |-> csv]
    /\ run' = "second"
    /\ pc' = "enter"
    /\ idx' = 1
    /\ usedCsvIndices' = {}
    /\ gresult' = EmptyGenericResult
    /\ UNCHANGED << pageVars, mode, env, excel, csv, mappings, fnArgs, fnOut, fixedVars >>

NextGeneric == GenericEnter \/ GenericRowStep \/ GenericTail \/ GenericCallAgain

Row2(c1, v1, c2, v2) == [c \in {c1, c2} |-> IF c = c1 THEN v1 ELSE v2]

\* rows of the left file, with the columns "nr" and "suma"
ExcelRowPool ==
    { Row2("nr", "F001", "suma", "100"),
      Row2("nr", "factura 1", "suma", "250.50"),
      Row2("nr", "", "suma", "") }

\* rows of the right file, with the columns "numar" and "total"
CsvRowPool ==
    { Row2("numar", "F001", "total", "100.0"),
      Row2("numar", "F001", "total", "99"),
      Row2("numar", "factura 2", "total", "250,5") }

MappingPool ==
    { [excel |-> "nr", csv |-> "numar"],
      [excel |-> "suma", csv |-> "total"],
      [excel |-> "data", csv |-> "numar"] }

InitGeneric ==
    /\ mode = "generic"
    /\ PageIdle
    /\ env = "strict"
    /\ pc = "enter"
    /\ excel \in SeqsUpTo(ExcelRowPool, MaxRows)
    /\ csv \in SeqsUpTo(CsvRowPool, MaxRows)
    /\ mappings \in SeqsUpTo(MappingPool, MaxMappings)
    /\ usedCsvIndices = {}
    /\ gresult = EmptyGenericResult
    /\ run = "first"
    /\ prev = NoCall
    /\ FixedIdle
    /\ FnIdle

-----------------------------------------------------------------------------
(* The evaluators applied to single arguments.                              *)

NumberPool ==
    { "0.05", "0.06", "0,06", "0.01", "0.02", "100.00", "100,00", "100.009", "100.011",
      "100.01", " 19 ", "19.01", "abc", "" }

\* numbersMatch(num1, num2), lines 327-331
ApplyNumbersMatch ==
    /\ mode = "fn" /\ pc = "numbersMatch"
    /\ fnOut' = << numbersMatch(fnArgs[1], fnArgs[2]) >>
    /\ pc' = "done"
    /\ UNCHANGED << pageVars, mode, env, idx, run, prev, fnArgs, excel, csv, mappings, usedCsvIndices,
                    gresult, fixedVars >>

\* records that differ in the issue date only
DatePool ==
    { "2024-01-10", "2024-01-17", "2024-01-18", "2024-01-03", "2024-01-02", "17/01/2024",
      "01/17/2024", "10.01.2024", "2024-02-29", "2024-03-07", "2024-03-08", "n/a", "" }

DatedRecords == { Rec("123", "F002", d, "ACME SRL", "19", "100.00") : d \in DatePool }

\* records that differ in the VAT base only
AmountPool ==
    { "100.00", "100,005", "95", "94.99", "105.27", "0", "0.004", "-100", "-100.005", "-200",
      "-5", "abc" }

AmountRecords == { Rec("123", "F002", "2024-01-10", "ACME SRL", "19", b) : b \in AmountPool }

\* calculateMatchScore(excelRecord, csvRecord), lines 347-378
ApplyCalculateMatchScore ==
    /\ mode = "fn" /\ pc = "calculateMatchScore" /\ fnOut = << >>
    /\ fnOut' = << calculateMatchScore(fnArgs[1], fnArgs[2], env) >>
    /\ UNCHANGED << pageVars, mode, env, pc, idx, run, prev, fnArgs, excel, csv, mappings, usedCsvIndices,
                    gresult, fixedVars >>

NamePool ==
    { "ACME SRL", "ACME IMPEX SRL", "Acme  s.r.l.", "SRL", "SA", "", "Beta Prod S.R.L.",
      "beta-gama", "alfa beta gama delta", "alfa beta gama omega", "alfa beta xyz",
      "abc xyz", "abcd abce", "ALFA CONSTRUCT", "ALFACONSTRUCT HOLDING" }

\* stringsMatch(str1, str2), lines 246-257
ApplyStringsMatch ==
    /\ mode = "fn" /\ pc = "stringsMatch" /\ fnOut = << >>
    /\ fnOut' = << stringsMatch(fnArgs[1], fnArgs[2]) >>
    /\ UNCHANGED << pageVars, mode, env, pc, idx, run, prev, fnArgs, excel, csv, mappings, usedCsvIndices,
                    gresult, fixedVars >>

\* issue-date texts: day/month/year with each separator, ISO dates, and
\* texts that are no date
DateTextPool ==
    { "05/01/2024", "5/1/2024", "05.01.2024", "05-01-2024", "17/01/2024", "17.01.2024",
      "31/12/2024", "2024-01-05", "2024-05-01", "2024-01-17", "2024-12-31", "a-b-c",
      "a.b.c", " a-b-c", "n/a", " n/a ", "abc" }

\* normalizeDate(dateStr), lines 223-244
ApplyNormalizeDate ==
    /\ mode = "fn" /\ pc = "normalizeDate" /\ fnOut = << >>
    /\ fnOut' = << normalizeDate(fnArgs[1], env) >>
    /\ UNCHANGED << pageVars, mode, env, pc, idx, run, prev, fnArgs, excel, csv, mappings, usedCsvIndices,
                    gresult, fixedVars >>

\* datesMatch(date1, date2), lines 216-221
ApplyDatesMatch ==
    /\ mode = "fn" /\ pc = "datesMatch" /\ fnOut = << >>
    /\ fnOut' = << datesMatch(fnArgs[1], fnArgs[2], env) >>
    /\ UNCHANGED << pageVars, mode, env, pc, idx, run, prev, fnArgs, excel, csv, mappings, usedCsvIndices,
                    gresult, fixedVars >>

\* cell texts of the column-mapping page
ValuePool ==
    { "", "2024-01-10", "2024-05-20", "2024-01-11", "100", "100.0", " 100.00", "100.5",
      "12abc", "12xyz", "abc", "ABC ", "abcdef", "abcdeg", "abcd", "abxd", "Acme  Srl",
      "acme srl" }

\* valuesMatch(val1, val2), page.tsx lines 218-243
ApplyValuesMatch ==
    /\ mode = "fn" /\ pc = "valuesMatch" /\ fnOut = << >>
    /\ fnOut' = << valuesMatch(fnArgs[1], fnArgs[2]) >>
    /\ UNCHANGED << pageVars, mode, env, pc, idx, run, prev, fnArgs, excel, csv, mappings, usedCsvIndices,
                    gresult, fixedVars >>

-----------------------------------------------------------------------------
(* The reader of the right source, CSVParser (src/src/lib/csv-parser.ts).   *)
(* Column positions are 1-based here and 0-based in the code.               *)

MapTrim(fields) == [k \in 1..Len(fields) |-> trim(fields[k])]

\* line.split('|').map(field => field.trim())
parseCSVLine(line) == MapTrim(splitEach(line, {"|"}))

\* lines 54-65: the header name of each record field
HeaderOf ==
    [nrFactur |-> "nr_factura", dataEmitere |-> "data_emitere",
     denumireEmitent |-> "den_vanzator", cifEmitent |-> "vanz_cui",
     cotaTVA |-> "cota_tva", baza |-> "baza_calcul"]

HeaderIs(headers, i, f) == trim(toLowerCase(headers[i])) = HeaderOf[f]

\* lines 48-67: columnMapping; a later column of the same name replaces an
\* earlier one
columnMapping(headers) ==
    [f \in { g \in DOMAIN HeaderOf : \E i \in 1..Len(headers) : HeaderIs(headers, i, g) } |->
        CHOOSE i \in 1..Len(headers) :
            /\ HeaderIs(headers, i, f)
            /\ \A l \in (i + 1)..Len(headers) : ~HeaderIs(headers, l, f)]

\* line 77: columns.length >= Math.max(...Object.values(columnMapping)), the
\* largest 0-based position; Math.max() of no value is -Infinity
LongEnough(columns, mapping) ==
    \A f \in DOMAIN mapping : Len(columns) >= mapping[f] - 1

\* columns[columnMapping[f]] || ''
CsvField(columns, mapping, f) ==
    IF f \in DOMAIN mapping /\ mapping[f] <= Len(columns) THEN columns[mapping[f]] ELSE ""

\* lines 88-90
stripRO(cif) ==
    IF Len(cif) >= 2 /\ SubSeq(cif, 1, 2) = "RO" THEN SubSeq(cif, 3, Len(cif)) ELSE cif

\* lines 78-93: the record of one row
CsvRowRecord(columns, mapping) ==
    Rec(stripRO(CsvField(columns, mapping, "cifEmitent")),
        CsvField(columns, mapping, "nrFactur"),
        CsvField(columns, mapping, "dataEmitere"),
        CsvField(columns, mapping, "denumireEmitent"),
        CsvField(columns, mapping, "cotaTVA"),
        replaceFirstComma(CsvField(columns, mapping, "baza")))

\* line 96: record.nrFactur && record.dataEmitere && record.cifEmitent
HasValidData(record) ==
    record.nrFactur # "" /\ record.dataEmitere # "" /\ record.cifEmitent # ""

\* lines 77 and 96: the row yields a record
CsvRowKept(columns, mapping) ==
    LongEnough(columns, mapping) /\ HasValidData(CsvRowRecord(columns, mapping))

\* lines 70-104 over the lines after the header
CsvRowsKept(lines, mapping) ==
    SelectSeq([k \in 1..(Len(lines) - 1) |-> parseCSVLine(lines[k + 1])],
              LAMBDA columns : CsvRowKept(columns, mapping))

CsvRecordsOf(rows, mapping) == [k \in 1..Len(rows) |-> CsvRowRecord(rows[k], mapping)]

\* lines 44-106
ParseCsvLines(lines) ==
    IF Len(lines) = 0 THEN << >>
    ELSE CsvRecordsOf(CsvRowsKept(lines, columnMapping(parseCSVLine(lines[1]))),
                      columnMapping(parseCSVLine(lines[1])))

\* line 42: csvText.split('\n').map(line => line.trim()).filter(line => line.length > 0)
CsvLines(csvText) ==
    SelectSeq(MapTrim(splitEach(csvText, {"\n"})), LAMBDA line : Len(line) > 0)

parseCSVContent(csvText) == ParseCsvLines(CsvLines(csvText))

\* header lines of the tax authority export: all six columns, and the three
\* required ones
CsvHeaderPool ==
    { "nr_factura|data_emitere|vanz_cui|cota_tva|baza_calcul|den_vanzator",
      "Nr_Factura| data_emitere |vanz_cui" }

\* data lines: a full one and the same invoice with trailing fields left out
CsvLinePool ==
    { "F001|2024-01-10|RO123|19|100,00|ACME SRL",
      "F002|2024-01-10|123|19|100,00",
      "F003|2024-01-10|123|19",
      "F004|2024-01-10|123",
      "F005|2024-01-10" }

RECURSIVE JoinLines(_)
JoinLines(lines) ==
    IF Len(lines) = 0 THEN ""
    ELSE IF Len(lines) = 1 THEN lines[1]
    ELSE lines[1] \o "\n" \o JoinLines(Tail(lines))

CsvTextPool ==
    { JoinLines(<< h >> \o rows) : h \in CsvHeaderPool, rows \in SeqsUpTo(CsvLinePool, MaxRows) }

\* parseCSVContent(csvText), lines 38-107
ApplyParseCSVContent ==
    /\ mode = "fn" /\ pc = "parseCSVContent" /\ fnOut = << >>
    /\ fnOut' = << parseCSVContent(fnArgs[1]) >>
    /\ UNCHANGED << pageVars, mode, env, pc, idx, run, prev, fnArgs, excel, csv, mappings, usedCsvIndices,
                    gresult, fixedVars >>

-----------------------------------------------------------------------------
(* The reader of the left source, ExcelParser.parseExcelData                *)
(* (src/src/lib/excel-parser.ts).  jsonData is the sheet as rows of cells;  *)
(* a cell is << text >>, or << >> where the sheet has no value (null or     *)
(* undefined).  sheet_to_json is called with raw: false, so a cell with a   *)
(* value holds its text.                                                    *)

\* String(value).trim(), and '' for no value
CellText(cell) == IF Len(cell) = 0 THEN "" ELSE trim(cell[1])

RECURSIVE NatText(_)
NatText(n) == IF n < 10 THEN DigitChar(n) ELSE NatText(n \div 10) \o DigitChar(n)

\* `Column_${index + 1}`
ColumnName(j) == "Column_" \o NatText(j)

\* lines 58-61
ExcelHeaders(row) ==
    [j \in 1..Len(row) |-> IF CellText(row[j]) # "" THEN CellText(row[j]) ELSE ColumnName(j)]

\* line 73: headers[j] || `Column_${j + 1}`
HeaderAt(headers, j) == IF j <= Len(headers) THEN headers[j] ELSE ColumnName(j)

\* lines 74-84: row[j] is undefined beyond the row's length
ValueAt(row, j) == IF j <= Len(row) THEN CellText(row[j]) ELSE ""

\* lines 69-85: a later column of the same name replaces an earlier one
ExcelRecordOf(headers, row) ==
    [h \in { HeaderAt(headers, j) : j \in 1..Max2(Len(headers), Len(row)) } |->
        ValueAt(row, CHOOSE j \in 1..Max2(Len(headers), Len(row)) :
                        /\ HeaderAt(headers, j) = h
                        /\ \A l \in (j + 1)..Max2(Len(headers), Len(row)) :
                               HeaderAt(headers, l) # h)]

\* line 66: if (!row || row.length === 0) continue
HasCells(row) == Len(row) > 0

ExcelRecordsOf(headers, rows) == [k \in 1..Len(rows) |-> ExcelRecordOf(headers, rows[k])]

\* lines 52-95
parseExcelData(jsonData) ==
    IF Len(jsonData) = 0 THEN [headers |-> << >>, records |-> << >>]
    ELSE [headers |-> ExcelHeaders(jsonData[1]),
          records |-> ExcelRecordsOf(ExcelHeaders(jsonData[1]),
                                     SelectSeq(Tail(jsonData), HasCells))]

ExcelHeaderRowPool ==
    { << << "nr" >>, << "suma" >>, << "data" >> >>,
      << << "nr" >>, << >>, << " suma " >> >> }

\* data rows: a full one, rows that stop before the last header, a row with a
\* gap, a row without a cell and a row longer than the header row
ExcelDataRowPool ==
    { << << "F001" >>, << "100" >>, << "2024-01-10" >> >>,
      << << "F002" >>, << " 250.50" >> >>,
      << << "F003" >> >>,
      << << "F004" >>, << >>, << "2024-02-01" >> >>,
      << >>,
      << << "F005" >>, << "7" >>, << "2024-03-01" >>, << "x" >> >> }

JsonDataPool ==
    { << h >> \o rows : h \in ExcelHeaderRowPool, rows \in SeqsUpTo(ExcelDataRowPool, MaxRows) }

\* parseExcelData(jsonData), lines 52-95
ApplyParseExcelData ==
    /\ mode = "fn" /\ pc = "parseExcelData" /\ fnOut = << >>
    /\ fnOut' = << parseExcelData(fnArgs[1]) >>
    /\ UNCHANGED << pageVars, mode, env, pc, idx, run, prev, fnArgs, excel, csv, mappings, usedCsvIndices,
                    gresult, fixedVars >>

NextFn ==
    \/ ApplyNumbersMatch \/ ApplyCalculateMatchScore \/ ApplyStringsMatch
    \/ ApplyParseCSVContent \/ ApplyParseExcelData
    \/ ApplyValuesMatch
    \/ ApplyNormalizeDate \/ ApplyDatesMatch

\* the function under evaluation, its host and its arguments
FnCall ==
    \/ /\ pc = "numbersMatch" /\ env = "strict"
       /\ fnArgs \in NumberPool \X NumberPool
    \/ /\ pc = "calculateMatchScore" /\ env \in Envs
       /\ fnArgs \in (DatedRecords \X DatedRecords) \cup (AmountRecords \X AmountRecords)
    \/ /\ pc = "stringsMatch" /\ env = "strict"
       /\ fnArgs \in NamePool \X NamePool
    \/ /\ pc = "parseCSVContent" /\ env = "strict"
       /\ fnArgs \in { << t >> : t \in CsvTextPool }
    \/ /\ pc = "parseExcelData" /\ env = "strict"
       /\ fnArgs \in { << d >> : d \in JsonDataPool }
    \/ /\ pc = "valuesMatch" /\ env = "strict"
       /\ fnArgs \in ValuePool \X ValuePool
    \/ /\ pc = "normalizeDate" /\ env \in Envs
       /\ fnArgs \in { << d >> : d \in DateTextPool }
    \/ /\ pc = "datesMatch" /\ env \in Envs
       /\ fnArgs \in DateTextPool \X DateTextPool

InitFn ==
    /\ mode = "fn"
    /\ PageIdle
    /\ FnCall
    /\ fnOut = << >>
    /\ run = "first"
    /\ prev = NoCall
    /\ FixedIdle
    /\ GenericIdle

-----------------------------------------------------------------------------
(* A call of compareRecords followed by a call on inputs that differ from  *)
(* the first in the letter case or the surrounding whitespace of one key   *)
(* field.                                                                  *)

SwapCaseChar(c) == IF IndexIn(c, LowerLetters) > 0 THEN UpperChar(c) ELSE LowerChar(c)

RECURSIVE swapCase(_)
swapCase(s) ==
    IF Len(s) <= 1 THEN SwapCaseChar(s)
    ELSE swapCase(FirstHalf(s)) \o swapCase(SecondHalf(s))

PerturbKinds == {"case", "leading", "trailing"}

Perturbed(value, kind) ==
    IF kind = "case" THEN swapCase(value)
    ELSE IF kind = "leading" THEN " " \o value
    ELSE value \o "\t"

PerturbAt(records, k, field, kind) ==
    [records EXCEPT ![k] = [@ EXCEPT ![field] = Perturbed(@, kind)]]

KeyFields == {"cifEmitent", "nrFactur"}

\* the next call of compareRecords, on the perturbed inputs
CallPerturbed ==
    /\ mode = "fixed" /\ pc = "done" /\ run = "first"
    /\ \E field \in KeyFields, kind \in PerturbKinds :
          \/ \E k \in 1..Len(excelRecords) :
                 /\ excelRecords' = PerturbAt(excelRecords, k, field, kind)
                 /\ UNCHANGED csvRecords
          \/ \E k \in 1..Len(csvRecords) :
                 /\ csvRecords' = PerturbAt(csvRecords, k, field, kind)
                 /\ UNCHANGED excelRecords
    /\ prev' = [result |-> result, left |-> excelRecords, right |-> csvRecords]
    /\ run' = "perturbed"
    /\ pc' = "build"
    /\ idx' = 1
    /\ csvExactMap' = NoMap
    /\ csvInvoiceMap' = NoMap
    /\ processedExcel' = {}
    /\ processedCSV' = {}
    /\ result' = EmptyResult
    /\ UNCHANGED << pageVars, mode, env, threw, excel, csv, mappings, usedCsvIndices, gresult,
                    fnArgs, fnOut >>

KeyedExcelPool == { r \in ExcelPool : r.nrFactur # "F003" }

KeyedCsvPool == { r \in CsvPool : r.cotaTVA = "19" /\ r.dataEmitere # "cif:" }

InitPerturb ==
    /\ mode = "fixed"
    /\ PageIdle
    /\ env \in Envs
    /\ excelRecords \in SeqsUpTo(KeyedExcelPool, MaxRecords)
    /\ csvRecords \in SeqsUpTo(KeyedCsvPool, MaxRecords)
    /\ EnterCompareRecords
    /\ run = "first"
    /\ prev = NoCall
    /\ GenericIdle
    /\ FnIdle

NextPerturb ==
    \/ BuildMaps \/ Phase1Step \/ Phase1Exit \/ Phase2Step \/ Phase2Exit \/ Phase3
    \/ CallPerturbed

-----------------------------------------------------------------------------
(* Calls of compareRecords on the invoices of the documented scenarios:    *)
(* one invoice, F001 of ACME, as each source may write it.                 *)

ScenarioALeft == Rec("RO123", "F001", "2024-01-10", "ACME SRL", "19", "100.00")

ScenarioARight == Rec("123", "F001", "2024-01-10", "ACME SRL", "19", "100,00")

ScenarioBRight == Rec("123", "F001", "2024-01-10", "ACME IMPEX SRL", "19", "100,00")

ScenarioExcelPool ==
    { ScenarioALeft,
      Rec("123", "F001", "2024-01-10", "ACME SRL", "19", "100.00"),
      Rec("123", "F 001", "2024-01-10", "ACME SRL", "19", "100.00"),
      Rec("RO123", "F001", "2024-01-12", "ACME SRL", "19", "100.00") }

ScenarioCsvPool ==
    { ScenarioARight,
      ScenarioBRight,
      Rec("1 23", "f001", "2024-01-10", "ACME SRL", "19", "100.00") }

InitScenario ==
    /\ mode = "fixed"
    /\ PageIdle
    /\ env \in Envs
    /\ excelRecords \in SeqsUpTo(ScenarioExcelPool, MaxRecords)
    /\ csvRecords \in SeqsUpTo(ScenarioCsvPool, MaxRecords)
    /\ EnterCompareRecords
    /\ run = "first"
    /\ prev = NoCall
    /\ GenericIdle
    /\ FnIdle

-----------------------------------------------------------------------------
(* compareRecords on records of one invoice whose VAT rate or VAT base is   *)
(* a number on one side and text that is no number on the other.           *)

NumericExcelPool ==
    { Rec("123", "F001", "2024-01-10", "ACME SRL", "19", "abc"),
      Rec("123", "F001", "2024-01-10", "ACME SRL", "n/a", "100.00"),
      Rec("123", "F001", "2024-01-10", "ACME SRL", "0", "0"),
      Rec("RO123", "F001", "2024-01-10", "ACME SRL", "19", "abc") }

NumericCsvPool ==
    { Rec("123", "F001", "2024-01-10", "ACME SRL", "19", "0"),
      Rec("123", "F001", "2024-01-10", "ACME SRL", "0", "100.00"),
      Rec("123", "F001", "2024-01-10", "ACME SRL", "19", "100.00"),
      Rec("123", "F001", "2024-01-10", "ACME SRL", "abc", "0.00") }

InitNumeric ==
    /\ mode = "fixed"
    /\ PageIdle
    /\ env \in Envs
    /\ excelRecords \in SeqsUpTo(NumericExcelPool, MaxRecords)
    /\ csvRecords \in SeqsUpTo(NumericCsvPool, MaxRecords)
    /\ EnterCompareRecords
    /\ run = "first"
    /\ prev = NoCall
    /\ GenericIdle
    /\ FnIdle

-----------------------------------------------------------------------------
(* compareRecords on records of one invoice number whose tax ids are        *)
(* written differently, so that the pairs come from phase 2.               *)

FallbackExcelPool ==
    { Rec("RO123", "F001", "2024-01-10", "ACME SRL", "19", "100.00"),
      Rec("RO123", "F001", "2024-01-10", "BETA SRL", "19", "100.00"),
      Rec("1 23", "F001", "2024-01-10", "ACME SRL", "19", "100.00"),
      Rec("456", "F001", "2024-01-12", "ACME SRL", "19", "100.00") }

FallbackCsvPool ==
    { Rec("123", "F001", "2024-01-10", "ACME SRL", "19", "100,00"),
      Rec("123", "F001", "cif:", "ACME SRL", "19", "100.00"),
      Rec("123", "F001", "2024-01-10", "ACME SRL", "9", "100.00"),
      Rec("123", "F001", "2024-01-10", "ACME SRL", "19", "104.00") }

InitFallback ==
    /\ mode = "fixed"
    /\ PageIdle
    /\ env \in Envs
    /\ excelRecords \in SeqsUpTo(FallbackExcelPool, MaxRecords)
    /\ csvRecords \in SeqsUpTo(FallbackCsvPool, MaxRecords)
    /\ EnterCompareRecords
    /\ run = "first"
    /\ prev = NoCall
    /\ GenericIdle
    /\ FnIdle

-----------------------------------------------------------------------------
(* Home, the column-mapping page (src/src/app/page.tsx 88-210).  An event  *)
(* handler runs to its end before the next event; handleFileInput gives up *)
(* control at its await, so the parse it started ends in a later step.     *)

Sources == {"excel", "csv"}

MaxAwaited == 1

ExcelFiles == {"ianuarie.xlsx", "februarie.xlsx", "stricat.xlsx"}

CsvFiles == {"ianuarie.csv", "februarie.csv", "stricat.csv"}

FilesOf(type) == IF type = "excel" THEN ExcelFiles ELSE CsvFiles

\* files whose parse is rejected (ExcelParser.parseExcel and CSVParser.parseCSV
\* throw)
Unreadable == {"stricat.xlsx", "stricat.csv"}

\* the parse result of a readable file
ParseResultOf(file) ==
    IF file = "ianuarie.xlsx"
    THEN [headers |-> << "nr", "suma" >>, records |-> << Row2("nr", "F001", "suma", "100") >>]
    ELSE IF file = "februarie.xlsx"
    THEN [headers |-> << "nr", "suma" >>,
          records |-> << Row2("nr", "factura 1", "suma", "250.50") >>]
    ELSE IF file = "ianuarie.csv"
    THEN [headers |-> << "numar", "total" >>,
          records |-> << Row2("numar", "F001", "total", "100.0") >>]
    ELSE [headers |-> << "numar", "total" >>,
          records |-> << Row2("numar", "factura 2", "total", "250,5") >>]

\* the list q without its k-th entry
Without(q, k) == SubSeq(q, 1, k - 1) \o SubSeq(q, k + 1, Len(q))

\* type === 'excel' ? 'excelFile' : 'csvFile'
FileField(type) == IF type = "excel" THEN "excelFile" ELSE "csvFile"

\* setExcelData(value) or setCsvData(value)
SetData(type, value) ==
    IF type = "excel"
    THEN excelData' = value /\ UNCHANGED csvData
    ELSE csvData' = value /\ UNCHANGED excelData

\* what page mode leaves alone
nonPageVars ==
    << mode, env, pc, idx, run, prev, excel, csv, mappings, usedCsvIndices, gresult, fnArgs,
       fnOut, fixedVars >>

\* handleFileInput with a file, lines 117-132, up to the await
HandleFileInputSelect ==
    /\ mode = "page"
    /\ \E type \in Sources : \E file \in FilesOf(type) :
           /\ Len(parsing[type]) < MaxAwaited
           /\ fileState' = [fileState EXCEPT ![FileField(type)] = Some(file)]
           /\ loading' = [loading EXCEPT ![type] = TRUE]
           /\ errorMessage' = ""
           /\ parsing' = [parsing EXCEPT ![type] = Append(@, file)]
    /\ UNCHANGED << excelData, csvData, selectedColumns, comparisonResult, nonPageVars >>

\* lines 132-140 and 148-150: the awaited parse gives a result
ParseResolves ==
    /\ mode = "page"
    /\ \E type \in Sources : \E k \in 1..Len(parsing[type]) :
           /\ parsing[type][k] \notin Unreadable
           /\ SetData(type, Some(ParseResultOf(parsing[type][k])))
           /\ selectedColumns' = [selectedColumns EXCEPT ![type] = << >>, !.mappings = << >>]
           /\ loading' = [loading EXCEPT ![type] = FALSE]
           /\ parsing' = [parsing EXCEPT ![type] = Without(@, k)]
    /\ comparisonResult' = Null
    /\ UNCHANGED << fileState, errorMessage, nonPageVars >>

\* lines 141-150: the awaited parse throws
ParseRejects ==
    /\ mode = "page"
    /\ \E type \in Sources : \E k \in 1..Len(parsing[type]) :
           /\ parsing[type][k] \in Unreadable
           /\ SetData(type, Null)
           /\ errorMessage' = "Eroare la procesarea fisierului " \o toUpperCase(type)
           /\ loading' = [loading EXCEPT ![type] = FALSE]
           /\ parsing' = [parsing EXCEPT ![type] = Without(@, k)]
    /\ UNCHANGED << fileState, selectedColumns, comparisonResult, nonPageVars >>

\* lines 153-164 and 169-184: the file and the data set of a source are
\* dropped and the result is reset
DropSource(type) ==
    /\ fileState' = [fileState EXCEPT ![FileField(type)] = Null]
    /\ SetData(type, Null)
    /\ selectedColumns' = [selectedColumns EXCEPT ![type] = << >>]
    /\ comparisonResult' = Null

\* handleFileInput without a file, lines 151-165
HandleFileInputNoFile ==
    /\ mode = "page"
    /\ \E type \in Sources : DropSource(type)
    /\ UNCHANGED << loading, errorMessage, parsing, nonPageVars >>

\* clearFile, lines 168-185
clearFile ==
    /\ mode = "page"
    /\ \E type \in Sources : fileState[FileField(type)] # Null /\ DropSource(type)
    /\ UNCHANGED << loading, errorMessage, parsing, nonPageVars >>

\* the value performComparison returns is a function of its three arguments
\* (generic mode above); the page keeps it as a whole, and it is kept here as
\* the arguments it was computed from
ResultOf(excel_, csv_, columns) == [excel |-> excel_, csv |-> csv_, columns |-> columns]

\* compareSelectedColumns, lines 188-210
compareSelectedColumns ==
    /\ mode = "page"
    /\ IF excelData = Null \/ csvData = Null \/ Len(selectedColumns.mappings) = 0
       THEN /\ errorMessage' = "Va rugam sa mapati cel putin o pereche de coloane"
            /\ UNCHANGED comparisonResult
       ELSE /\ errorMessage' = ""
            /\ comparisonResult' = Some(ResultOf(excelData[1], csvData[1], selectedColumns))
    /\ UNCHANGED << fileState, excelData, csvData, selectedColumns, loading, parsing,
                    nonPageVars >>

\* addMapping, lines 788-802: a mapping of the two first headers
addMapping ==
    /\ mode = "page"
    /\ excelData # Null /\ csvData # Null
    /\ Len(selectedColumns.mappings) < MaxMappings
    /\ selectedColumns' =
           [selectedColumns EXCEPT !.mappings =
               Append(@, [excel |-> excelData[1].headers[1], csv |-> csvData[1].headers[1]])]
    /\ UNCHANGED << fileState, excelData, csvData, comparisonResult, loading, errorMessage,
                    parsing, nonPageVars >>

\* removeMapping(index), lines 804-809
removeMapping ==
    /\ mode = "page"
    /\ \E index \in 1..Len(selectedColumns.mappings) :
           selectedColumns' = [selectedColumns EXCEPT !.mappings = Without(@, index)]
    /\ UNCHANGED << fileState, excelData, csvData, comparisonResult, loading, errorMessage,
                    parsing, nonPageVars >>

NextPage ==
    \/ HandleFileInputSelect \/ ParseResolves \/ ParseRejects \/ HandleFileInputNoFile
    \/ clearFile \/ compareSelectedColumns \/ addMapping \/ removeMapping

\* the page as first rendered
InitPage ==
    /\ mode = "page"
    /\ PageIdle
    /\ env = "strict"
    /\ pc = "page"
    /\ run = "first"
    /\ prev = NoCall
    /\ FixedIdle
    /\ GenericIdle
    /\ FnIdle

-----------------------------------------------------------------------------

Init == InitFixed \/ InitGeneric \/ InitFn

Next == NextFixed \/ NextGeneric \/ NextFn

Spec == Init /\ [][Next]_vars

SpecPerturb == InitPerturb /\ [][NextPerturb]_vars

SpecScenario == InitScenario /\ [][NextFixed]_vars

SpecNumeric == InitNumeric /\ [][NextFixed]_vars

SpecFallback == InitFallback /\ [][NextFixed]_vars

SpecPage == InitPage /\ [][NextPage]_vars

-----------------------------------------------------------------------------
(* Properties.                                                             *)

FixedDone == mode = "fixed" /\ pc = "done"

GenericDone == mode = "generic" /\ pc = "done"

MatchedBuckets == {"perfectMatches", "valueDifferences", "transactionDifferences"}

MatchedPairs(res) == res.perfectMatches \o res.valueDifferences \o res.transactionDifferences

\* how many times position i occurs in the buckets, as a left and as a right record
LeftOccurrences(res, i) ==
    Cardinality({ k \in 1..Len(res.missingFromCSV) : res.missingFromCSV[k] = i })
    + Cardinality({ k \in 1..Len(MatchedPairs(res)) : MatchedPairs(res)[k].excelRecord = i })

RightOccurrences(res, j) ==
    Cardinality({ k \in 1..Len(res.missingFromExcel) : res.missingFromExcel[k] = j })
    + Cardinality({ k \in 1..Len(MatchedPairs(res)) : MatchedPairs(res)[k].csvRecord = j })

\* C1: when compareRecords returns, left-only plus matched pairs count the left
\* records, right-only plus matched pairs count the right records, and every
\* left and every right record occurs in the buckets exactly once - for all
\* inputs, those with repeated keys on one side included.
C1_FixedExhaustive ==
    FixedDone =>
        /\ Len(result.missingFromCSV) + Len(MatchedPairs(result)) = Len(excelRecords)
        /\ Len(result.missingFromExcel) + Len(MatchedPairs(result)) = Len(csvRecords)
        /\ \A i \in 1..Len(excelRecords) : LeftOccurrences(result, i) = 1
        /\ \A j \in 1..Len(csvRecords) : RightOccurrences(result, j) = 1

GenericLeftOccurrences(res, i) ==
    Cardinality({ k \in 1..Len(res.onlyInExcel) : res.onlyInExcel[k].rowIndex = i })
    + Cardinality({ k \in 1..Len(res.matches) : res.matches[k].rowIndex = i })

GenericRightOccurrences(res, j) ==
    Cardinality({ k \in 1..Len(res.onlyInCsv) : res.onlyInCsv[k].rowIndex = j })
    + Cardinality({ k \in 1..Len(res.matches) : res.matches[k].csvRowIndex = j })

GenericExhaustive ==
    /\ Len(gresult.onlyInExcel) + Len(gresult.matches) = Len(excel)
    /\ Len(gresult.onlyInCsv) + Len(gresult.matches) = Len(csv)
    /\ \A i \in 1..Len(excel) : GenericLeftOccurrences(gresult, i) = 1
    /\ \A j \in 1..Len(csv) : GenericRightOccurrences(gresult, j) = 1

\* C2 as stated: when performComparison returns, the buckets are exhaustive for
\* every mapping list, the empty list included.
C2_GenericExhaustive == GenericDone => GenericExhaustive

\* C2 amended: when performComparison returns, the buckets are exhaustive if
\* the mapping list is not empty; with the empty mapping list all three
\* buckets are empty whatever the rows.
C2_GenericExhaustiveMapped ==
    GenericDone =>
        IF Len(mappings) = 0 THEN gresult = EmptyGenericResult ELSE GenericExhaustive

\* a call with mappings that ends with a pair, a left-only and a right-only row
C2_Witness ==
    /\ GenericDone /\ Len(mappings) > 0
    /\ Len(gresult.matches) > 0 /\ Len(gresult.onlyInExcel) > 0 /\ Len(gresult.onlyInCsv) > 0

\* C3: at every moment of a run no right record is the csvRecord of two
\* matched pairs and no left record is the excelRecord of two, in
\* compareRecords and in performComparison.
C3_ConsumedOnce ==
    /\ mode = "fixed" =>
          \A k, l \in 1..Len(MatchedPairs(result)) :
              k # l => /\ MatchedPairs(result)[k].csvRecord # MatchedPairs(result)[l].csvRecord
                       /\ MatchedPairs(result)[k].excelRecord # MatchedPairs(result)[l].excelRecord
    /\ mode = "generic" =>
          \A k, l \in 1..Len(gresult.matches) :
              k # l => /\ gresult.matches[k].csvRowIndex # gresult.matches[l].csvRowIndex
                       /\ gresult.matches[k].rowIndex # gresult.matches[l].rowIndex

PairingOf(bucket) ==
    [k \in 1..Len(bucket) |->
        << bucket[k].excelRecord, bucket[k].csvRecord, bucket[k].matchType >>]

Shape(res) ==
    [missingFromCSV |-> res.missingFromCSV,
     missingFromExcel |-> res.missingFromExcel,
     valueDifferences |-> PairingOf(res.valueDifferences),
     transactionDifferences |-> PairingOf(res.transactionDifferences),
     perfectMatches |-> PairingOf(res.perfectMatches)]

\* C5: after the letter case of cifEmitent or nrFactur of one record is
\* changed, or whitespace is added before or after it, compareRecords pairs
\* the same positions with the same match kind and puts every record in the
\* same bucket as before.
C5_KeyNormalizationInvariance ==
    FixedDone /\ run = "perturbed" => Shape(result) = Shape(prev.result)

\* the call on the perturbed inputs pairs the changed left record by its key
C5_Witness ==
    /\ FixedDone /\ run = "perturbed"
    /\ \E k \in 1..Len(MatchedPairs(result)) :
           /\ MatchedPairs(result)[k].matchType = "exact"
           /\ excelRecords[MatchedPairs(result)[k].excelRecord]
                  # prev.left[MatchedPairs(result)[k].excelRecord]

\* position of a call in its control flow, counted from the return
PhaseRank ==
    IF pc = "build" THEN 4
    ELSE IF pc = "phase1" THEN 3
    ELSE IF pc = "phase2" THEN 2
    ELSE IF pc = "phase3" THEN 1
    ELSE 0

\* a bound on the steps left: the loop iterations left in the current phase,
\* below the phases left in the call, below the calls left
StepsLeft ==
    ((IF run = "first" THEN 5 ELSE 0) + PhaseRank) * (Len(excelRecords) + 2)
    + (Len(excelRecords) + 1 - idx)

\* C6: compareRecords never throws, so a call stops only by returning; it
\* terminates, because each statement run lowers a natural number; the
\* returned result holds the five buckets, and with two empty inputs all of
\* them are empty.
C6_Totality ==
    /\ [](mode = "fixed" => ~threw /\ pc # "threw")
    /\ [](mode = "fixed" => StepsLeft >= 0)
    /\ [][mode = "fixed" => StepsLeft' < StepsLeft]_vars
    /\ [](FixedDone => DOMAIN result = DOMAIN EmptyResult)
    /\ [](FixedDone /\ excelRecords = << >> /\ csvRecords = << >> => result = EmptyResult)

\* a call that compared a record whose date is no date, beside a record with
\* empty and non-numeric fields, and returned
C6_Witness ==
    /\ FixedDone /\ ~threw
    /\ \E k \in 1..Len(MatchedPairs(result)) :
           csvRecords[MatchedPairs(result)[k].csvRecord].dataEmitere = "cif:"
    /\ \E i \in 1..Len(excelRecords) :
           excelRecords[i].baza = "" /\ excelRecords[i].cotaTVA = "abc"

\* the fallback phase is about to treat a left record that phase 1 left unconsumed
Phase2Pending ==
    mode = "fixed" /\ pc = "phase2" /\ idx <= Len(excelRecords) /\ idx \notin processedExcel

\* the unconsumed right records with the invoice number of the current left record
OpenCandidates ==
    { j \in 1..Len(csvRecords) :
        /\ j \notin processedCSV
        /\ normalizeInvoiceNumber(csvRecords[j].nrFactur)
               = normalizeInvoiceNumber(excelRecords[idx].nrFactur) }

ScoreOf(j) == calculateMatchScore(excelRecords[idx], csvRecords[j], env)

\* j has the maximum score and is the earliest with it
IsTopCandidate(j) ==
    \A l \in OpenCandidates :
        ScoreOf(l) < ScoreOf(j) \/ (ScoreOf(l) = ScoreOf(j) /\ j <= l)

\* the step appended the pair (idx, j) of the given kind to one matched bucket
PairAppended(j, kind) ==
    \E b \in MatchedBuckets :
        /\ Len(result'[b]) = Len(result[b]) + 1
        /\ result'[b][Len(result'[b])].excelRecord = idx
        /\ result'[b][Len(result'[b])].csvRecord = j
        /\ result'[b][Len(result'[b])].matchType = kind

ScenarioLeft == Rec("RO123", "F002", "2024-01-10", "ACME SRL", "19", "100.00")

ScenarioRight == Rec("123", "F002", "2024-01-13", "ACME SRL", "19", "100.00")

\* C7: a left record unconsumed after phase 1 is paired in phase 2 exactly
\* when an unconsumed right record with its normalized invoice number scores
\* above 0.5 (5 tenths); the right record paired has the maximum score among
\* those candidates and is the earliest of them on a tie; the pair is an
\* 'invoice-only' match.  A candidate 3 days off with equal amount and VAT
\* rate scores 0.8.
C7_Phase2Acceptance ==
    /\ [][Phase2Pending =>
            IF \E j \in OpenCandidates : ScoreOf(j) > 5
            THEN \E j \in OpenCandidates :
                     /\ IsTopCandidate(j)
                     /\ processedCSV' = processedCSV \cup {j}
                     /\ processedExcel' = processedExcel \cup {idx}
                     /\ PairAppended(j, "invoice-only")
            ELSE UNCHANGED << processedExcel, processedCSV, result >>]_vars
    /\ [](calculateMatchScore(ScenarioLeft, ScenarioRight, env) = 8)

\* a fallback pair made with the earlier of two candidates that both score 0.8
C7_Witness ==
    /\ FixedDone
    /\ \E k \in 1..Len(MatchedPairs(result)), j \in 1..Len(csvRecords) :
           /\ MatchedPairs(result)[k].matchType = "invoice-only"
           /\ MatchedPairs(result)[k].csvRecord < j
           /\ j \notin processedCSV
           /\ normalizeInvoiceNumber(csvRecords[j].nrFactur)
                  = normalizeInvoiceNumber(csvRecords[MatchedPairs(result)[k].csvRecord].nrFactur)
           /\ calculateMatchScore(excelRecords[MatchedPairs(result)[k].excelRecord],
                                  csvRecords[j], env) = 8
           /\ calculateMatchScore(excelRecords[MatchedPairs(result)[k].excelRecord],
                                  csvRecords[MatchedPairs(result)[k].csvRecord], env) = 8

GenericPending == mode = "generic" /\ pc = "rows" /\ idx <= Len(excel)

UnusedRows == { j \in 1..Len(csv) : j \notin usedCsvIndices }

\* the number of mappings whose two values match: the numerator of the score
MatchingOf(j) ==
    Cardinality({ k \in 1..Len(mappings) :
        valuesMatch(Cell(excel[idx], mappings[k].excel), Cell(csv[j], mappings[k].csv)) })

IsTopRow(j) ==
    \A l \in UnusedRows :
        MatchingOf(l) < MatchingOf(j) \/ (MatchingOf(l) = MatchingOf(j) /\ j <= l)

\* C8: each Excel row, in input order, is paired with the unused CSV row of the
\* highest score if that score is at least 0.5 (1 of 2 mappings is enough),
\* the smallest index winning among equal top scores; if no unused CSV row
\* reaches 0.5 the Excel row goes to onlyInExcel.
C8_GenericSelection ==
    [][GenericPending =>
          IF \E j \in UnusedRows : 2 * MatchingOf(j) >= Len(mappings)
          THEN \E j \in UnusedRows :
                   /\ IsTopRow(j)
                   /\ usedCsvIndices' = usedCsvIndices \cup {j}
                   /\ Len(gresult'.matches) = Len(gresult.matches) + 1
                   /\ gresult'.matches[Len(gresult'.matches)].rowIndex = idx
                   /\ gresult'.matches[Len(gresult'.matches)].csvRowIndex = j
                   /\ gresult'.onlyInExcel = gresult.onlyInExcel
          ELSE /\ usedCsvIndices' = usedCsvIndices
               /\ gresult'.matches = gresult.matches
               /\ Len(gresult'.onlyInExcel) = Len(gresult.onlyInExcel) + 1
               /\ gresult'.onlyInExcel[Len(gresult'.onlyInExcel)].rowIndex = idx]_vars

\* a pair accepted with exactly one of two mappings matching
C8_Witness ==
    /\ GenericDone /\ Len(mappings) = 2
    /\ \E k \in 1..Len(gresult.matches) : Len(gresult.matches[k].differences) = 1

\* the fields on which the evaluators find a pair to differ
DifferingFields(excelRecord, csvRecord, e) ==
    { f \in {"cifEmitent", "dataEmitere", "denumireEmitent", "cotaTVA", "baza"} :
        \/ f = "cifEmitent" /\ ~cifsMatch(excelRecord.cifEmitent, csvRecord.cifEmitent)
        \/ f = "dataEmitere" /\ ~datesMatch(excelRecord.dataEmitere, csvRecord.dataEmitere, e)
        \/ f = "denumireEmitent"
               /\ ~stringsMatch(excelRecord.denumireEmitent, csvRecord.denumireEmitent)
        \/ f = "cotaTVA" /\ ~numbersMatch(excelRecord.cotaTVA, csvRecord.cotaTVA)
        \/ f = "baza" /\ ~numbersMatch(excelRecord.baza, csvRecord.baza) }

CounterpartyOnly(fields) == fields # {} /\ fields \subseteq {"denumireEmitent", "cifEmitent"}

\* C9: a matched pair is in transactionDifferences exactly when its differing
\* fields are a non-empty subset of {company name, tax id}; whatever the raw
\* field values, a pair with a date, VAT-rate or VAT-base difference is in
\* valueDifferences.
C9_CounterpartyOnly ==
    mode = "fixed" =>
        \A b \in MatchedBuckets : \A k \in 1..Len(result[b]) :
            /\ b = "transactionDifferences" <=>
                   CounterpartyOnly(DifferingFields(excelRecords[result[b][k].excelRecord],
                                                    csvRecords[result[b][k].csvRecord], env))
            /\ DifferingFields(excelRecords[result[b][k].excelRecord],
                               csvRecords[result[b][k].csvRecord], env)
                   \cap {"dataEmitere", "cotaTVA", "baza"} # {}
               => b = "valueDifferences"

\* C10: numbersMatch returns true exactly when the parsed values (a decimal
\* comma read as a point) differ by less than 0.01, i.e. by less than 10
\* thousandths: 0.009 apart is equal, 0.011 apart and exactly 0.01 apart are not.
C10_ToleranceBoundary ==
    mode = "fn" /\ pc = "done" =>
        fnOut[1] = (Abs(normalizeNumber(fnArgs[1]) - normalizeNumber(fnArgs[2])) < 10)

\* the function under evaluation has returned
Returned(fn) == mode = "fn" /\ pc = fn /\ fnOut # << >>

\* normalized text that names a day of the calendar
IsCalendarDate(n) ==
    /\ IsIsoShape(n)
    /\ DigitsToNat(SubSeq(n, 6, 7)) \in 1..12
    /\ DigitsToNat(SubSeq(n, 9, 10)) \in
           1..DaysInMonth(DigitsToNat(SubSeq(n, 1, 4)), DigitsToNat(SubSeq(n, 6, 7)))

CalendarDay(n) ==
    DayNumber(DigitsToNat(SubSeq(n, 1, 4)), DigitsToNat(SubSeq(n, 6, 7)),
              DigitsToNat(SubSeq(n, 9, 10)))

\* the date component in tenths, from the two normalized dates
ExpectedDatePoints(n1, n2) ==
    IF n1 = n2 THEN 4
    ELSE IF /\ IsCalendarDate(n1) /\ IsCalendarDate(n2)
            /\ Abs(CalendarDay(n1) - CalendarDay(n2)) <= 7
         THEN 2
         ELSE 0

\* C11: for two records with the same VAT base and VAT rate (0.4 + 0.2 of the
\* score), calculateMatchScore adds 0.4 when the normalized dates are equal,
\* otherwise 0.2 when both are calendar dates at most 7 days apart, otherwise
\* 0 (8 days or more apart, or one of them no date); 7 days apart gives 0.2
\* and 8 days apart gives 0.
C11_DateComponent ==
    /\ Returned("calculateMatchScore")
           /\ fnArgs[1].baza = fnArgs[2].baza /\ fnArgs[1].cotaTVA = fnArgs[2].cotaTVA
       => fnOut[1] = 6 + ExpectedDatePoints(normalizeDate(fnArgs[1].dataEmitere, env),
                                            normalizeDate(fnArgs[2].dataEmitere, env))
    /\ DatePoints("2024-01-10", "2024-01-17", env) = 2
    /\ DatePoints("2024-01-10", "2024-01-18", env) = 0

\* a score of 0.8 for dates written differently that are 7 days apart
C11_Witness ==
    /\ Returned("calculateMatchScore")
    /\ fnArgs[1].dataEmitere = "2024-01-10" /\ fnArgs[2].dataEmitere = "17/01/2024"
    /\ fnOut[1] = 8

\* the call on the given inputs has returned
ReturnedOn(left, right) == FixedDone /\ excelRecords = left /\ csvRecords = right

\* the result holds one matched pair, of the first left and the first right
\* record, in the given bucket, and nothing else
OnlyPairIn(bucket) ==
    /\ Len(result[bucket]) = 1
    /\ result[bucket][1].excelRecord = 1 /\ result[bucket][1].csvRecord = 1
    /\ \A b \in DOMAIN result \ {bucket} : result[b] = << >>

\* C12 (Scenario A): compareRecords on the left record with tax id 'RO123' and
\* the right record with tax id '123' and base '100,00' returns one pair, in
\* perfectMatches, and every other bucket is empty.
C12_ScenarioA ==
    ReturnedOn(<< ScenarioALeft >>, << ScenarioARight >>) => OnlyPairIn("perfectMatches")

SameInvoice(i) ==
    { j \in 1..Len(csvRecords) :
        normalizeInvoiceNumber(csvRecords[j].nrFactur)
            = normalizeInvoiceNumber(excelRecords[i].nrFactur) }

InMissingFromCSV(i) == \E k \in 1..Len(result.missingFromCSV) : result.missingFromCSV[k] = i

\* C14: the two records of every matched pair, exact or invoice-only, have the
\* same normalized invoice number; a left record unconsumed after phase 1
\* whose same-invoice right records are all consumed or score at most 0.5 is
\* left unpaired by phase 2; and at the return a left record that is unpaired,
\* or whose normalized invoice number no right record has, is in
\* missingFromCSV.  (Right records hold no '|', the delimiter of their reader.)
C14_InvoiceNumberAgreement ==
    /\ [](mode = "fixed" =>
             \A k \in 1..Len(MatchedPairs(result)) :
                 MatchedPairs(result)[k].csvRecord
                     \in SameInvoice(MatchedPairs(result)[k].excelRecord))
    /\ [][Phase2Pending /\ (\A j \in SameInvoice(idx) : j \in processedCSV \/ ScoreOf(j) <= 5)
              => UNCHANGED << processedExcel, processedCSV, result >>]_vars
    /\ [](FixedDone =>
             \A i \in 1..Len(excelRecords) :
                 i \notin processedExcel \/ SameInvoice(i) = {} => InMissingFromCSV(i))

\* a left record left unpaired beside an unconsumed right record with its
\* invoice number that scores 0.2, and another whose invoice number is nowhere
\* on the right
C14_Witness ==
    /\ FixedDone
    /\ \E i \in 1..Len(excelRecords) :
           /\ InMissingFromCSV(i)
           /\ \E j \in SameInvoice(i) :
                  /\ j \notin processedCSV
                  /\ calculateMatchScore(excelRecords[i], csvRecords[j], env) = 2
    /\ \E i \in 1..Len(excelRecords) : SameInvoice(i) = {} /\ InMissingFromCSV(i)

\* the fields of data line k of a delimited text (line 1 is the header line)
DataColumns(csvText, k) == parseCSVLine(CsvLines(csvText)[k + 1])

\* record and fields belong together: the fields the line holds are in the
\* record, and every mapped field beyond the line's end is the empty string
CsvRecordOfLine(record, columns, mapping) ==
    /\ record.nrFactur = CsvField(columns, mapping, "nrFactur")
    /\ \A f \in DOMAIN mapping : mapping[f] > Len(columns) => record[f] = ""

\* the rows of the sheet after the header row that hold a cell
RowsWithCells(jsonData) == { k \in 2..Len(jsonData) : Len(jsonData[k]) > 0 }

\* C15: both readers give one record per data row (a line that is not blank,
\* a sheet row with at least one cell), in row order, also for a row with
\* fewer fields than the header row; such a record holds the empty string for
\* every missing trailing field.
C15_ShortRows ==
    /\ Returned("parseCSVContent") =>
           /\ Len(fnOut[1]) = Len(CsvLines(fnArgs[1])) - 1
           /\ \A k \in 1..Len(fnOut[1]) :
                  CsvRecordOfLine(fnOut[1][k], DataColumns(fnArgs[1], k),
                                  columnMapping(parseCSVLine(CsvLines(fnArgs[1])[1])))
    /\ Returned("parseExcelData") =>
           /\ Len(fnOut[1].records) = Cardinality(RowsWithCells(fnArgs[1]))
           /\ Cardinality(RowsWithCells(fnArgs[1])) = Len(fnArgs[1]) - 1 =>
                  \A k \in 1..Len(fnOut[1].records) :
                      \A j \in 1..Len(fnOut[1].headers) :
                          j > Len(fnArgs[1][k + 1])
                              => fnOut[1].records[k][fnOut[1].headers[j]] = ""

\* phase 1 of the running call is over
Phase1Over == mode = "fixed" /\ pc \in {"phase2", "phase3", "done"}

\* tax id and invoice number of the two records agree under the full
\* normalizers (uppercase, all whitespace removed)
SameNormalizedKey(excelRecord, csvRecord) ==
    /\ normalizeCIF(excelRecord.cifEmitent) = normalizeCIF(csvRecord.cifEmitent)
    /\ normalizeInvoiceNumber(excelRecord.nrFactur) = normalizeInvoiceNumber(csvRecord.nrFactur)

\* C16: a left and a right record whose tax ids and invoice numbers agree
\* under the full normalizers have the same composite key, and phase 1 pairs
\* the left record, with match kind 'exact', with a right record that agrees
\* with it in this way.
C16_FullNormalizerKey ==
    Phase1Over =>
        \A i \in 1..Len(excelRecords), j \in 1..Len(csvRecords) :
            SameNormalizedKey(excelRecords[i], csvRecords[j]) =>
                /\ createRecordKey(excelRecords[i].cifEmitent, excelRecords[i].nrFactur)
                       = createRecordKey(csvRecords[j].cifEmitent, csvRecords[j].nrFactur)
                /\ \E k \in 1..Len(MatchedPairs(result)) :
                       /\ MatchedPairs(result)[k].excelRecord = i
                       /\ MatchedPairs(result)[k].matchType = "exact"
                       /\ SameNormalizedKey(excelRecords[i],
                                            csvRecords[MatchedPairs(result)[k].csvRecord])

LeftKey(i) == createRecordKey(excelRecords[i].cifEmitent, excelRecords[i].nrFactur)

RightKey(j) == createRecordKey(csvRecords[j].cifEmitent, csvRecords[j].nrFactur)

\* a right record whose composite key a later right record has as well
OverwrittenRight(j) == \E l \in (j + 1)..Len(csvRecords) : RightKey(l) = RightKey(j)

PairedAs(kind, i, j) ==
    \E k \in 1..Len(MatchedPairs(result)) :
        /\ MatchedPairs(result)[k].matchType = kind
        /\ MatchedPairs(result)[k].excelRecord = i
        /\ MatchedPairs(result)[k].csvRecord = j

\* C17: the right record of every 'exact' pair has the key of the left record
\* and is the last right record with that key, so a right record with a later
\* namesake is in no 'exact' pair; after phase 1 every left record whose key
\* occurs on the right is in an 'exact' pair; at the return each right record
\* with a later namesake is in an 'invoice-only' pair or in missingFromExcel;
\* and no exception is raised.
C17_LastWriteWins ==
    mode = "fixed" =>
        /\ ~threw
        /\ \A i \in 1..Len(excelRecords), j \in 1..Len(csvRecords) :
               PairedAs("exact", i, j) => LeftKey(i) = RightKey(j) /\ ~OverwrittenRight(j)
        /\ Phase1Over =>
               \A i \in 1..Len(excelRecords) :
                   (\E j \in 1..Len(csvRecords) : RightKey(j) = LeftKey(i))
                       => \E j \in 1..Len(csvRecords) : PairedAs("exact", i, j)
        /\ FixedDone =>
               \A j \in 1..Len(csvRecords) :
                   OverwrittenRight(j) =>
                       \/ \E i \in 1..Len(excelRecords) : PairedAs("invoice-only", i, j)
                       \/ \E k \in 1..Len(result.missingFromExcel) : result.missingFromExcel[k] = j

\* two right records with one key: the later in an 'exact' pair, the earlier
\* taken by phase 2
C17_Witness ==
    /\ FixedDone
    /\ \E j \in 1..Len(csvRecords), l \in 1..Len(csvRecords), i1, i2 \in 1..Len(excelRecords) :
           /\ j < l /\ RightKey(j) = RightKey(l)
           /\ PairedAs("exact", i1, l)
           /\ PairedAs("invoice-only", i2, j)

IsPrefix(p, q) == Len(p) <= Len(q) /\ SubSeq(q, 1, Len(p)) = p

ExactPairedLeft(i) == \E j \in 1..Len(csvRecords) : PairedAs("exact", i, j)

\* right record r is free when phase 2 reaches left record i: phase 1 paired
\* it with nobody and phase 2 gave it to no earlier left record
FreeFor(i, r) ==
    \A l \in 1..Len(excelRecords) :
        ~PairedAs("exact", l, r) /\ (l < i => ~PairedAs("invoice-only", l, r))

\* left records i1 before i2, both left over by phase 1, whose one and only
\* same-invoice right record is r, free for i1 and scoring above 0.5 with it
CompeteFor(i1, i2, r) ==
    /\ i1 < i2
    /\ ~ExactPairedLeft(i1) /\ ~ExactPairedLeft(i2)
    /\ SameInvoice(i1) = {r} /\ SameInvoice(i2) = {r}
    /\ FreeFor(i1, r)
    /\ calculateMatchScore(excelRecords[i1], csvRecords[r], env) > 5

\* C18: within a call a consumed right record stays consumed and a pair once
\* made is never taken back or changed; phase 2 treats the left records in
\* input order; so when an earlier and a later left record compete for one
\* right record, the earlier is paired with it and the later ends in
\* missingFromCSV, whatever the later one's score.
C18_GreedyFirstClaim ==
    /\ [][mode = "fixed" /\ pc # "done" =>
              /\ processedCSV \subseteq processedCSV'
              /\ processedExcel \subseteq processedExcel'
              /\ \A b \in MatchedBuckets : IsPrefix(result[b], result'[b])]_vars
    /\ [][mode = "fixed" /\ pc = "phase2" /\ pc' = "phase2" => idx' = idx + 1]_vars
    /\ [](FixedDone =>
             \A i1 \in 1..Len(excelRecords), i2 \in 1..Len(excelRecords), r \in 1..Len(csvRecords) :
                 CompeteFor(i1, i2, r) => PairedAs("invoice-only", i1, r) /\ InMissingFromCSV(i2))

\* the earlier left record holds the right record with a score of 0.8 while
\* the later one, which scores 1.0 with it, is in missingFromCSV
C18_Witness ==
    /\ FixedDone
    /\ \E i1 \in 1..Len(excelRecords), i2 \in 1..Len(excelRecords), r \in 1..Len(csvRecords) :
           /\ CompeteFor(i1, i2, r)
           /\ PairedAs("invoice-only", i1, r) /\ InMissingFromCSV(i2)
           /\ calculateMatchScore(excelRecords[i1], csvRecords[r], env) = 8
           /\ calculateMatchScore(excelRecords[i2], csvRecords[r], env) = 10

\* the amount component in tenths, from the two parsed amounts in thousandths:
\* |a - b| < 0.01, else |a - b| at most 5% of the larger amount
ExpectedAmountPoints(a, b) ==
    IF Abs(a - b) * 100 < Milli THEN 4
    ELSE IF 100 * Abs(a - b) <= 5 * Max2(a, b) THEN 2
    ELSE 0

\* C19: for two records with the same date and VAT rate (0.4 + 0.2 of the
\* score), calculateMatchScore adds 0.4 exactly when the parsed amounts differ
\* by less than 0.01, otherwise 0.2 exactly when they differ by at most 5% of
\* the larger one, otherwise 0 - for zero and negative amounts as well.
C19_AmountComponent ==
    Returned("calculateMatchScore")
        /\ fnArgs[1].dataEmitere = fnArgs[2].dataEmitere
        /\ fnArgs[1].cotaTVA = fnArgs[2].cotaTVA
    => fnOut[1] = 6 + ExpectedAmountPoints(normalizeNumber(fnArgs[1].baza),
                                           normalizeNumber(fnArgs[2].baza))

\* the key words of a raw company name: its normalized form cut at whitespace
\* and hyphens, without the words of length <= 2 and the stop words
KeyTokens(name) == extractKeyWords(normalizeCompanyName(name))

\* how many words of list short are inside, or hold, a word of list long
FoundIn(short, long) ==
    Cardinality({ i \in 1..Len(short) :
        \E j \in 1..Len(long) : includes(long[j], short[i]) \/ includes(short[i], long[j]) })

\* at least 70% of the words of the shorter list are found in the other one;
\* of two lists of one length the first counts as the shorter
SeventyPercentFound(words1, words2) ==
    IF Len(words1) <= Len(words2)
    THEN 10 * FoundIn(words1, words2) >= 7 * Len(words1)
    ELSE 10 * FoundIn(words2, words1) >= 7 * Len(words2)

UnequalNames ==
    Returned("stringsMatch") /\ normalizeCompanyName(fnArgs[1]) # normalizeCompanyName(fnArgs[2])

\* C20 as stated: for two names whose normalized forms differ, stringsMatch is
\* true exactly when at least ceil(0.7 x n) of the n key words of the shorter
\* list are found in the longer list - for names without any key word too.
C20_FlexibleThreshold ==
    UnequalNames => fnOut[1] = SeventyPercentFound(KeyTokens(fnArgs[1]), KeyTokens(fnArgs[2]))

\* C20 amended: for two names whose normalized forms differ, stringsMatch is
\* true exactly when both names have a key word and at least ceil(0.7 x n) of
\* the n key words of the shorter list are found in the longer list; if a name
\* has no key word, stringsMatch is false.
C20_FlexibleThresholdKeyed ==
    UnequalNames =>
        fnOut[1] = (/\ Len(KeyTokens(fnArgs[1])) > 0
                    /\ Len(KeyTokens(fnArgs[2])) > 0
                    /\ SeventyPercentFound(KeyTokens(fnArgs[1]), KeyTokens(fnArgs[2])))

\* two names of four key words each that share three of them match
C20_Witness ==
    /\ UnequalNames
    /\ Len(KeyTokens(fnArgs[1])) = 4 /\ Len(KeyTokens(fnArgs[2])) = 4
    /\ FoundIn(KeyTokens(fnArgs[1]), KeyTokens(fnArgs[2])) = 3
    /\ fnOut[1] = TRUE

-----------------------------------------------------------------------------
\* a text that is a decimal numeral from end to end: an optional sign, digits
\* and at most one point, with a digit somewhere
IsNumeral(s) ==
    \E t \in { IF Len(s) > 0 /\ SubSeq(s, 1, 1) \in {"-", "+"} THEN SubSeq(s, 2, Len(s)) ELSE s } :
        /\ \E i \in 1..Len(t) : IsDigit(Char(t, i))
        /\ \A i \in 1..Len(t) : IsDigit(Char(t, i)) \/ Char(t, i) = "."
        /\ Cardinality({ i \in 1..Len(t) : Char(t, i) = "." }) <= 1

\* the listed conditions on two non-empty values with the normalized forms
\* norm1 and norm2
EqualAsFields(norm1, norm2) ==
    \/ norm1 = norm2
    \/ includes(norm1, norm2) \/ includes(norm2, norm1)
    \/ /\ IsNumeral(norm1) /\ IsNumeral(norm2)
       /\ parseFloat(norm1).val = parseFloat(norm2).val
    \/ /\ Len(norm1) > 3 /\ Len(norm2) > 3
       /\ 5 * (Max2(Len(norm1), Len(norm2)) - LevenshteinDistance(norm1, norm2))
              > 4 * Max2(Len(norm1), Len(norm2))

\* C21: valuesMatch(a, b) is true exactly when both values are empty, or both
\* are non-empty and their normalized forms are equal, or one contains the
\* other, or both are numbers of equal value, or both are longer than 3
\* characters and more than 80% similar; two different texts that only begin
\* with the same digits do not match.
C21_FieldEquality ==
    Returned("valuesMatch")
    => fnOut[1] = (IF fnArgs[1] = "" \/ fnArgs[2] = ""
                   THEN fnArgs[1] = "" /\ fnArgs[2] = ""
                   ELSE EqualAsFields(normalizeString(fnArgs[1]), normalizeString(fnArgs[2])))

-----------------------------------------------------------------------------
DateParts(s) == splitEach(s, {"/", ".", "-"})

\* a day/month/year text: day 1-31, month 1-12, four-digit year
IsDayMonthYear(s) ==
    /\ NumericTripleParts(DateParts(s))
    /\ DigitsToNat(DateParts(s)[1]) \in 1..31
    /\ DigitsToNat(DateParts(s)[2]) \in 1..12

\* the calendar date of a day/month/year text, as YYYY-MM-DD
DayFirstIso(s) ==
    FormatIso(DigitsToNat(DateParts(s)[3]), DigitsToNat(DateParts(s)[2]),
              DigitsToNat(DateParts(s)[1]))

\* C22: normalizeDate maps every day/month/year text (separators '/', '.',
\* '-') to the YYYY-MM-DD text of the date with the first component as the
\* day, so datesMatch of such a text with an ISO date is true exactly when the
\* ISO date is that day-first date, for days up to 12 as for days above 12.
C22_DayFirst ==
    /\ Returned("normalizeDate") /\ IsDayMonthYear(fnArgs[1])
       => fnOut[1] = DayFirstIso(fnArgs[1])
    /\ Returned("datesMatch") /\ IsDayMonthYear(fnArgs[1]) /\ IsIsoShape(fnArgs[2])
       => fnOut[1] = (DayFirstIso(fnArgs[1]) = fnArgs[2])

\* a text that is neither an ISO date nor three digit runs
NoDate(s) == ~IsIsoShape(trim(s)) /\ ~NumericTripleParts(DateParts(s))

\* C23: for every text that is no recognizable date, including one that
\* splits into three parts on '/', '.' or '-', normalizeDate returns the
\* trimmed text; two such texts are equal under datesMatch exactly when their
\* trimmed texts are identical.
C23_Fallback ==
    /\ Returned("normalizeDate") /\ NoDate(fnArgs[1])
       => fnOut[1] = trim(fnArgs[1])
    /\ Returned("datesMatch") /\ NoDate(fnArgs[1]) /\ NoDate(fnArgs[2])
       => fnOut[1] = (trim(fnArgs[1]) = trim(fnArgs[2]))

-----------------------------------------------------------------------------
\* the text of a number field as the code cleans it before parsing
CleanedNumber(numStr) == replaceFirstComma(trim(numStr))

\* text that is no number, against a number
OneSideNoNumber(a, b) ==
    \/ a # "" /\ parseFloat(CleanedNumber(a)).nan /\ IsNumeral(CleanedNumber(b))
    \/ b # "" /\ parseFloat(CleanedNumber(b)).nan /\ IsNumeral(CleanedNumber(a))

NumberFields == { << "cotaTVA", "Cota TVA" >>, << "baza", "Baza TVA" >> }

\* the pair lists a difference of the field f, labelled l
ReportsDifference(pair, f, l) ==
    \E d \in 1..Len(pair.differences) :
        pair.differences[d] = DiffText(l, excelRecords[pair.excelRecord][f],
                                       csvRecords[pair.csvRecord][f])

\* C24: in every result of compareRecords, a matched pair whose VAT rate (or
\* VAT base) is text that is no number on exactly one side and a number on the
\* other lists a difference of that field and is not in perfectMatches.
C24_UnparsableNumbers ==
    FixedDone =>
        \A b \in MatchedBuckets : \A k \in 1..Len(result[b]) : \A fl \in NumberFields :
            OneSideNoNumber(excelRecords[result[b][k].excelRecord][fl[1]],
                            csvRecords[result[b][k].csvRecord][fl[1]])
            => ReportsDifference(result[b][k], fl[1], fl[2]) /\ b # "perfectMatches"

-----------------------------------------------------------------------------
LeftOf(pair) == excelRecords[pair.excelRecord]

RightOf(pair) == csvRecords[pair.csvRecord]

\* a phase-2 pair whose tax ids differ after uppercasing and removing whitespace
FallbackPairOfTwoIds(pair) ==
    /\ pair.matchType = "invoice-only"
    /\ normalizeCIF(LeftOf(pair).cifEmitent) # normalizeCIF(RightOf(pair).cifEmitent)

\* date, VAT rate and VAT base of the pair compare equal
ValuesCompareEqual(pair) ==
    /\ datesMatch(LeftOf(pair).dataEmitere, RightOf(pair).dataEmitere, env)
    /\ numbersMatch(LeftOf(pair).cotaTVA, RightOf(pair).cotaTVA)
    /\ numbersMatch(LeftOf(pair).baza, RightOf(pair).baza)

\* C25: every 'invoice-only' pair whose normalized tax ids differ lists a
\* 'CIF' difference and is not in perfectMatches, and it is in
\* transactionDifferences exactly when its date, VAT rate and VAT base compare
\* equal.
C25_FallbackTaxId ==
    FixedDone =>
        \A b \in MatchedBuckets : \A k \in 1..Len(result[b]) :
            FallbackPairOfTwoIds(result[b][k])
            => /\ ReportsDifference(result[b][k], "cifEmitent", "CIF")
               /\ b # "perfectMatches"
               /\ (b = "transactionDifferences") = ValuesCompareEqual(result[b][k])

-----------------------------------------------------------------------------
\* the positions << bucket, k >> of the matched pairs of the result
PairPositions ==
    { << b, k >> : b \in MatchedBuckets, k \in 1..MaxRecords } \cap
    { bk \in MatchedBuckets \X (1..MaxRecords) : bk[2] <= Len(result[bk[1]]) }

PairAt(bk) == result[bk[1]][bk[2]]

\* C26: in every result of compareRecords (and while it is built) each matched
\* pair is in exactly one of perfectMatches, valueDifferences and
\* transactionDifferences; a pair of perfectMatches has an empty difference
\* list and a pair of the two other buckets a non-empty one; and the list of a
\* pair is the one computed between the two records stored in the pair.
C26_BucketDifferenceConsistency ==
    mode = "fixed" =>
        /\ \A bk \in PairPositions :
               /\ PairAt(bk).differences
                      = findDifferences(LeftOf(PairAt(bk)), RightOf(PairAt(bk)), env)
               /\ (bk[1] = "perfectMatches") = (Len(PairAt(bk).differences) = 0)
        /\ \A bk1 \in PairPositions : \A bk2 \in PairPositions :
               /\ PairAt(bk1).excelRecord = PairAt(bk2).excelRecord
               /\ PairAt(bk1).csvRecord = PairAt(bk2).csvRecord
               => bk1 = bk2

\* a call has returned one pair without and one pair with differences
C26_Witness ==
    /\ FixedDone
    /\ Len(result.perfectMatches) = 1
    /\ Len(result.valueDifferences) + Len(result.transactionDifferences) = 1

-----------------------------------------------------------------------------
\* C27: for all inputs of compareRecords, those with repeated composite keys
\* on either side included, every left record is the left record of exactly
\* one matched pair or is in missingFromCSV, never both and never twice, and
\* missingFromCSV lists the unmatched left records in input order.
C27_LeftPartition ==
    FixedDone =>
        /\ \A i \in 1..Len(excelRecords) : LeftOccurrences(result, i) = 1
        /\ \A k \in 1..Len(result.missingFromCSV) :
               result.missingFromCSV[k] \in 1..Len(excelRecords)
        /\ \A k1 \in 1..Len(result.missingFromCSV) : \A k2 \in 1..Len(result.missingFromCSV) :
               k1 < k2 => result.missingFromCSV[k1] < result.missingFromCSV[k2]

\* a call has returned on two left records of one composite key that a right
\* record has too
C27_Witness ==
    /\ FixedDone
    /\ Len(excelRecords) = 2 /\ LeftKey(1) = LeftKey(2)
    /\ \E j \in 1..Len(csvRecords) : RightKey(j) = LeftKey(1)

-----------------------------------------------------------------------------
\* the pair lists a difference of the tax id
CarriesCifDifference(pair) ==
    \E d \in 1..Len(pair.differences) : IsPrefix("CIF: Excel=", pair.differences[d])

\* C28: every 'exact' pair has equal composite keys and lists no 'CIF'
\* difference; every 'invoice-only' pair has a left record whose composite key
\* no right record of the input has, so phase 2 pairs no two records that
\* phase 1 could have paired.
C28_MatchKindAndKeys ==
    mode = "fixed" =>
        \A bk \in PairPositions :
            /\ PairAt(bk).matchType \in {"exact", "invoice-only"}
            /\ PairAt(bk).matchType = "exact"
               => /\ LeftKey(PairAt(bk).excelRecord) = RightKey(PairAt(bk).csvRecord)
                  /\ ~CarriesCifDifference(PairAt(bk))
            /\ PairAt(bk).matchType = "invoice-only"
               => \A j \in 1..Len(csvRecords) : RightKey(j) # LeftKey(PairAt(bk).excelRecord)

\* a call has returned an 'exact' pair and an 'invoice-only' pair
C28_Witness ==
    /\ FixedDone
    /\ \E bk \in PairPositions : PairAt(bk).matchType = "exact"
    /\ \E bk \in PairPositions : PairAt(bk).matchType = "invoice-only"

-----------------------------------------------------------------------------
\* C29: stringsMatch(a, b) = stringsMatch(b, a) for all names a and b, two
\* names with key-word lists of one length included: whether a name
\* difference is reported does not depend on which source is the left one.
C29_Symmetric ==
    Returned("stringsMatch") => fnOut[1] = stringsMatch(fnArgs[2], fnArgs[1])

-----------------------------------------------------------------------------
\* the result on display was computed from the two loaded data sets
ResultIsCurrent ==
    /\ excelData # Null /\ csvData # Null
    /\ comparisonResult[1].excel = excelData[1]
    /\ comparisonResult[1].csv = csvData[1]

\* C30: after any sequence of file selections (whose parse succeeds or
\* fails), file clearings and compare clicks, a non-null comparisonResult
\* stands beside two non-null data sets, those it was computed from; and every
\* event that replaces or removes a data set resets comparisonResult to null.
C30_NoStaleResult ==
    [][/\ comparisonResult' # Null => ResultIsCurrent'
       /\ (excelData' # excelData \/ csvData' # csvData) => comparisonResult' = Null]_vars

=============================================================================
